---- MODULE Spec2Model ----
(***************************************************************************)
(* Model of the GitHub connector's addressing and reconciliation code:     *)
(* addr.rs (to_path_buf / from_path), resource.rs (RON bodies),            *)
(* connector/plan.rs (do_plan), connector.rs (eq, diag).                   *)
(*                                                                         *)
(* A string is a sequence of one-character strings, so that formatting a   *)
(* path and splitting it into components are real conversions.  The        *)
(* character "#FF" stands for a byte that is not valid UTF-8.              *)
(***************************************************************************)
EXTENDS Integers, Sequences, FiniteSets, TLC

VARIABLES addr, path, current, desired, op, out, prev

(* The operation text handed to op_exec. *)
VARIABLES request

(* A role and a permission string, for the conversions between them. *)
VARIABLES role, perm

(* The connector's fields, the init call in progress and the get, list and *)
(* op_exec calls in progress.                                              *)
VARIABLES config, semaphore, client, init_call, tasks

(* What the remote service holds. *)
VARIABLES remote

planvars == <<current, desired, prev>>
rolevars == <<role, perm>>
remotevars == <<remote>>
connvars == <<config, semaphore, client, init_call, tasks>>
othervars == <<addr, path, op, out, planvars, request, rolevars, remotevars>>

vars == <<addr, path, op, out, planvars, request, rolevars, remotevars, connvars>>

-----------------------------------------------------------------------------
(* Bounds *)

MaxIdLen == 2

(* Calls that may run on the connector at once, and init calls made. *)
NumTasks == 2
MaxInits == 2

(* The largest concurrent_requests a configuration file sets. *)
MaxConcurrentRequests == 1

(* GitHubConnectorConfig::default().concurrent_requests, and the permits   *)
(* of the semaphore GitHubConnector::default() builds.                     *)
DefaultConcurrentRequests == 5
ConstNewPermits == 1

-----------------------------------------------------------------------------
(* Strings *)

SLASH == "/"
BADBYTE == "#FF"

GITHUB == <<"g","i","t","h","u","b">>
CONFIG_RON == <<"c","o","n","f","i","g",".","r","o","n">>
REPOSITORY_RON == <<"r","e","p","o","s","i","t","o","r","y",".","r","o","n">>
BRANCHES == <<"b","r","a","n","c","h","e","s">>
PROTECTION_RON == <<"p","r","o","t","e","c","t","i","o","n",".","r","o","n">>
COLLABORATORS == <<"c","o","l","l","a","b","o","r","a","t","o","r","s">>
DOT_RON == <<".","r","o","n">>

RECURSIVE JoinSlash(_)
JoinSlash(parts) ==
    IF Len(parts) = 0 THEN <<>>
    ELSE IF Len(parts) = 1 THEN parts[1]
    ELSE parts[1] \o <<SLASH>> \o JoinSlash(Tail(parts))

ends_with(s, suf) ==
    /\ Len(s) >= Len(suf)
    /\ SubSeq(s, Len(s) - Len(suf) + 1, Len(s)) = suf

strip_suffix(s, suf) == SubSeq(s, 1, Len(s) - Len(suf))

(* The chunks of s between slashes, empty chunks included. *)
RECURSIVE SplitSlash(_, _, _)
SplitSlash(s, i, acc) ==
    IF i > Len(s) THEN <<acc>>
    ELSE IF s[i] = SLASH THEN <<acc>> \o SplitSlash(s, i + 1, <<>>)
    ELSE SplitSlash(s, i + 1, Append(acc, s[i]))

(* std::path::Path::components on Unix: a leading slash is the root        *)
(* component, repeated slashes and a trailing slash vanish, and "." is     *)
(* dropped except as the first component of a relative path.               *)
components(p) ==
    LET chunks == SplitSlash(p, 1, <<>>)
        rooted == Len(p) > 0 /\ p[1] = SLASH
        keep(i) == /\ chunks[i] # <<>>
                   /\ (chunks[i] = <<".">> => (i = 1 /\ ~rooted))
        kept == SelectSeq([i \in 1..Len(chunks) |-> i], keep)
    IN  (IF rooted THEN << <<SLASH>> >> ELSE <<>>)
        \o [j \in 1..Len(kept) |-> chunks[kept[j]]]

(* OsStr::to_str is None when the component is not valid UTF-8. *)
is_utf8(s) == \A i \in 1..Len(s) : s[i] # BADBYTE

-----------------------------------------------------------------------------
(* addr.rs *)

Config == [kind |-> "Config"]
Repository(owner, repo) == [kind |-> "Repository", owner |-> owner, repo |-> repo]
BranchProtectionAddr(owner, repo, branch) ==
    [kind |-> "BranchProtection", owner |-> owner, repo |-> repo, branch |-> branch]
CollaboratorAddr(owner, repo, username) ==
    [kind |-> "Collaborator", owner |-> owner, repo |-> repo, username |-> username]

to_path_buf(a) ==
    CASE a.kind = "Config" -> JoinSlash(<<GITHUB, CONFIG_RON>>)
      [] a.kind = "Repository" -> JoinSlash(<<GITHUB, a.owner, a.repo, REPOSITORY_RON>>)
      [] a.kind = "BranchProtection" ->
            JoinSlash(<<GITHUB, a.owner, a.repo, BRANCHES, a.branch, PROTECTION_RON>>)
      [] a.kind = "Collaborator" ->
            JoinSlash(<<GITHUB, a.owner, a.repo, COLLABORATORS, a.username \o DOT_RON>>)

Ok(v) == [tag |-> "Ok", val |-> v]
Err(kind, info) == [tag |-> "Err", kind |-> kind, info |-> info]
Panic == [tag |-> "Panic"]

invalid_addr_path(p) == Err("InvalidAddress", p)

from_path(p) ==
    LET c == components(p)
    IN  IF \E i \in 1..Len(c) : ~is_utf8(c[i]) THEN Panic
        ELSE IF Len(c) = 4 /\ c[1] = GITHUB /\ c[4] = REPOSITORY_RON
            THEN Ok(Repository(c[2], c[3]))
        ELSE IF Len(c) = 6 /\ c[1] = GITHUB /\ c[4] = BRANCHES /\ c[6] = PROTECTION_RON
            THEN Ok(BranchProtectionAddr(c[2], c[3], c[5]))
        ELSE IF Len(c) = 5 /\ c[1] = GITHUB /\ c[4] = COLLABORATORS /\ ends_with(c[5], DOT_RON)
            THEN Ok(CollaboratorAddr(c[2], c[3], strip_suffix(c[5], DOT_RON)))
        ELSE invalid_addr_path(p)

-----------------------------------------------------------------------------
(* resource.rs, config.rs: bodies and their RON text                        *)
(*                                                                         *)
(* A byte buffer is modelled by what its RON text holds: whether the bytes *)
(* are UTF-8, the struct name written before the parenthesis ("" when the  *)
(* text starts with the parenthesis), and the fields in the order they are *)
(* written.  A field is its name, the token written as its value and, for  *)
(* a map literal, the entries in the order they are written.  Two buffers  *)
(* are byte-identical exactly when these records are equal.                *)

Field(name, tok) == [name |-> name, tok |-> tok, entries |-> <<>>]
MapField(name, entries) == [name |-> name, tok |-> "{..}", entries |-> entries]
Buf(nm, fields) == [utf8 |-> TRUE, name |-> nm, fields |-> fields]
NotUtf8 == [utf8 |-> FALSE, name |-> "", fields |-> <<>>]

None == [some |-> FALSE]
Some(v) == [some |-> TRUE, v |-> v]

User(n) == [t |-> "User", n |-> n]
Team(n) == [t |-> "Team", n |-> n]

(* The tokens that deserialize as each field type. *)
Tokens(type) ==
    CASE type = "bool" -> {"true", "false"}
      [] type = "Option<String>" -> {"None", "Some(\"d\")"}
      [] type = "String" -> {"\"main\"", "\"dev\"", "\"read\"", "\"write\""}
      [] type = "Vec<String>" -> {"[]", "[\"t\"]"}
      [] type = "usize" -> {"5", "3"}
      [] type = "HashMap<CollaboratorPrincipal, Role>" -> {"{..}"}
      [] type = "Option<RequiredStatusChecks>" ->
            {"None", "Some((strict:true,contexts:[\"ci/tests\"]))"}
      [] type = "Option<PullRequestReviewEnforcement>" -> {"None"}
      [] type = "Option<BranchRestrictions>" -> {"None"}
      [] type = "CollaboratorPermissions" ->
            {"(pull:true,triage:false,push:false,maintain:false,admin:false)"}

IsOption(type) ==
    type \in {"Option<String>", "Option<RequiredStatusChecks>",
              "Option<PullRequestReviewEnforcement>", "Option<BranchRestrictions>"}

F(name, type, default) == [name |-> name, type |-> type, default |-> default]

(* GitHubRepository: #[serde(default, deny_unknown_fields)], so a field    *)
(* left out of the text takes its value from impl Default.                 *)
GitHubRepositoryFields ==
     <<
        F("description", "Option<String>", "None"),
        F("homepage", "Option<String>", "None"),
        F("topics", "Vec<String>", "[]"),
        F("private", "bool", "true"),
        F("has_issues", "bool", "true"),
        F("has_projects", "bool", "true"),
        F("has_wiki", "bool", "true"),
        F("allow_squash_merge", "bool", "true"),
        F("allow_merge_commit", "bool", "true"),
        F("allow_rebase_merge", "bool", "true"),
        F("allow_auto_merge", "bool", "false"),
        F("delete_branch_on_merge", "bool", "false"),
        F("default_branch", "String", "\"main\""),
        F("archived", "bool", "false"),
        F("disabled", "bool", "false"),
        F("collaborators", "HashMap<CollaboratorPrincipal, Role>", "{..}") >>

(* GitHubRepository were deny_unknown_fields left out of its attributes. *)
GitHubRepository_lenient ==
    [name |-> "GitHubRepository", struct_default |-> TRUE, deny_unknown |-> FALSE,
     fields |-> GitHubRepositoryFields]

GitHubRepository ==
    [name |-> "GitHubRepository", struct_default |-> TRUE, deny_unknown |-> TRUE,
     fields |-> GitHubRepositoryFields]

(* BranchProtection: #[serde(deny_unknown_fields)] without default, so     *)
(* every field must be written except the Option ones (serde reads a       *)
(* missing Option field as None).                                          *)
BranchProtection ==
    [name |-> "BranchProtection", struct_default |-> FALSE, deny_unknown |-> TRUE,
     fields |-> <<
        F("required_status_checks", "Option<RequiredStatusChecks>", "None"),
        F("enforce_admins", "bool", ""),
        F("required_pull_request_reviews", "Option<PullRequestReviewEnforcement>", "None"),
        F("restrictions", "Option<BranchRestrictions>", "None"),
        F("required_linear_history", "bool", ""),
        F("allow_force_pushes", "bool", ""),
        F("allow_deletions", "bool", ""),
        F("block_creations", "bool", ""),
        F("required_conversation_resolution", "bool", ""),
        F("lock_branch", "bool", ""),
        F("allow_fork_syncing", "bool", "") >>]

(* resource::Collaborator as get.rs builds it; its declaration is not in   *)
(* resource.rs, so its serde attributes are taken to be those of the other *)
(* bodies (strict schema).                                                 *)
Collaborator ==
    [name |-> "Collaborator", struct_default |-> FALSE, deny_unknown |-> TRUE,
     fields |-> <<
        F("permissions", "CollaboratorPermissions", ""),
        F("role_name", "String", "") >>]

GitHubConnectorConfig ==
    [name |-> "GitHubConnectorConfig", struct_default |-> FALSE, deny_unknown |-> TRUE,
     fields |-> <<
        F("orgs", "Vec<String>", ""),
        F("users", "Vec<String>", ""),
        F("enterprise_url", "Option<String>", "None"),
        F("concurrent_requests", "usize", "") >>]

SchemaNames(schema) == {schema.fields[i].name : i \in 1..Len(schema.fields)}
SchemaField(schema, name) ==
    schema.fields[CHOOSE i \in 1..Len(schema.fields) : schema.fields[i].name = name]

(* A map literal read into a HashMap: a key written twice keeps the value  *)
(* written last.                                                           *)
MapOf(entries) ==
    {entries[i] : i \in {i \in 1..Len(entries) :
        \A j \in (i+1)..Len(entries) : entries[j][1] # entries[i][1]}}

(* The decoded value of a field. *)
Value(tok, map) == [tok |-> tok, map |-> map]
Decoded(f) == Value(f.tok, MapOf(f.entries))

(* What is wrong with the i-th written field, "" when nothing is. *)
FieldError(schema, fields, i) ==
    LET f == fields[i]
    IN  IF f.name \notin SchemaNames(schema)
            THEN (IF schema.deny_unknown THEN "unknown field" ELSE "")
        ELSE IF f.tok \notin Tokens(SchemaField(schema, f.name).type)
            THEN "invalid type"
        ELSE IF \E j \in 1..(i-1) : fields[j].name = f.name
            THEN "duplicate field"
        ELSE ""

ParseError(msg, field) == Err("ParseError", [msg |-> msg, field |-> field])

(* std::str::from_utf8(&bytes)? *)
from_utf8(buf) ==
    IF buf.utf8 THEN Ok(buf) ELSE Err("Utf8Error", [msg |-> "invalid utf-8", field |-> ""])

(* RON.from_str::<T>(s)? for the struct T that schema describes:           *)
(* Ok(struct), where a struct is a function from the field names to        *)
(* decoded values, or the first error met.                                 *)
from_str(schema, buf) ==
    LET fs == buf.fields
        bad == {i \in 1..Len(fs) : FieldError(schema, fs, i) # ""}
        first == CHOOSE i \in bad : \A j \in bad : i <= j
        written == {fs[i].name : i \in 1..Len(fs)}
        missing == {i \in 1..Len(schema.fields) :
                        /\ schema.fields[i].name \notin written
                        /\ ~schema.struct_default
                        /\ ~IsOption(schema.fields[i].type)}
        firstMissing == CHOOSE i \in missing : \A j \in missing : i <= j
        get(n) == LET i == CHOOSE i \in 1..Len(fs) : fs[i].name = n IN Decoded(fs[i])
    IN  IF buf.name \notin {"", schema.name}
            THEN ParseError("expected struct name", "")
        ELSE IF bad # {} THEN ParseError(FieldError(schema, fs, first), fs[first].name)
        ELSE IF missing # {}
            THEN ParseError("missing field", schema.fields[firstMissing].name)
        ELSE Ok([n \in SchemaNames(schema) |->
                    IF n \in written THEN get(n)
                    ELSE Value(SchemaField(schema, n).default, {})])

(* from_utf8 then from_str, as every decoding site does. *)
decode(schema, buf) ==
    IF from_utf8(buf).tag = "Err" THEN from_utf8(buf) ELSE from_str(schema, buf)

-----------------------------------------------------------------------------
(* op.rs, connector/plan.rs *)

CreateRepository(new) == [op |-> "CreateRepository", new |-> new]
UpdateRepository(old, new) == [op |-> "UpdateRepository", old |-> old, new |-> new]
DeleteRepository == [op |-> "DeleteRepository"]
CreateBranchProtection(new) == [op |-> "CreateBranchProtection", new |-> new]
UpdateBranchProtection(old, new) == [op |-> "UpdateBranchProtection", old |-> old, new |-> new]
DeleteBranchProtection == [op |-> "DeleteBranchProtection"]
AddCollaborator(new) == [op |-> "AddCollaborator", new |-> new]
UpdateCollaboratorPermission(old, new) ==
    [op |-> "UpdateCollaboratorPermission", old |-> old, new |-> new]
RemoveCollaborator == [op |-> "RemoveCollaborator"]

(* format!(fmt, args...) kept as the format string and its arguments. *)
format(fmt, args) == [fmt |-> fmt, args |-> args]

(* connector_op!(op, description) *)
connector_op(o, description) == [op |-> o, desc |-> description]

(* The orders in which a HashMap may hand out its entries: the order is    *)
(* unspecified and differs from one map to the next.                       *)
RECURSIVE Orders(_)
Orders(m) ==
    IF m = {} THEN {<<>>}
    ELSE UNION {{<<e>> \o q : q \in Orders(m \ {e})} : e \in m}

(* The text of a struct: its fields in declaration order, the entries of   *)
(* its collaborator map in the order iter.                                 *)
ron_to_string(schema, body, iter) ==
    Buf(schema.name,
        [i \in 1..Len(schema.fields) |->
            LET n == schema.fields[i].name
            IN  IF n = "collaborators" THEN MapField(n, iter) ELSE Field(n, body[n].tok)])

(* The texts that serializing a struct may give. *)
Texts(schema, body) ==
    {ron_to_string(schema, body, q) :
        q \in Orders(IF "collaborators" \in DOMAIN body THEN body["collaborators"].map ELSE {})}

(* The body type an operation variant carries. *)
OpSchema(o) ==
    CASE o.op \in {"CreateRepository", "UpdateRepository", "DeleteRepository"} -> GitHubRepository
      [] o.op \in {"CreateBranchProtection", "UpdateBranchProtection", "DeleteBranchProtection"} ->
            BranchProtection
      [] OTHER -> Collaborator

(* GitHubConnectorOp::to_string: the texts RON.to_string(self) may give. *)
to_string(o) ==
    IF "old" \in DOMAIN o
        THEN {[variant |-> o.op, bodies |-> <<a, b>>] :
                a \in Texts(OpSchema(o), o.old), b \in Texts(OpSchema(o), o.new)}
    ELSE IF "new" \in DOMAIN o
        THEN {[variant |-> o.op, bodies |-> <<b>>] : b \in Texts(OpSchema(o), o.new)}
    ELSE {[variant |-> o.op, bodies |-> <<>>]}

(* What a plan call may hand back: each planned operation travels as the   *)
(* text op_definition that connector_op! takes from to_string.             *)
PlanResponses(r) ==
    IF r.tag # "Ok" THEN {r}
    ELSE {Ok([i \in 1..Len(r.val) |->
                [op |-> r.val[i].op, desc |-> r.val[i].desc, op_definition |-> f[i]]]) :
            f \in {g \in [1..Len(r.val) -> UNION {to_string(r.val[j].op) : j \in 1..Len(r.val)}] :
                        \A i \in 1..Len(r.val) : g[i] \in to_string(r.val[i].op)}}

(* diff_ron_values(old, new).unwrap_or_default(): the summary names the    *)
(* fields whose values differ, in declaration order.                       *)
diff_ron_values(schema, old, new) ==
    LET names == [i \in 1..Len(schema.fields) |-> schema.fields[i].name]
        differs(n) == old[n] # new[n]
    IN  SelectSeq(names, differs)

(* The Repository arm with the (None, Some) and (Some, None) arms of the   *)
(* inner match exchanged.                                                  *)
plan_repository_swapped(owner, repo, cur, des) ==
    IF ~cur.some /\ ~des.some THEN Ok(<<>>)
    ELSE IF ~des.some THEN
        LET new == decode(GitHubRepository, cur.v)
        IN  IF new.tag = "Err" THEN new
            ELSE Ok(<<connector_op(CreateRepository(new.val),
                        format("Create GitHub repository {}/{}", <<owner, repo>>))>>)
    ELSE IF ~cur.some THEN
        Ok(<<connector_op(DeleteRepository,
                format("Delete GitHub repository {}/{}", <<owner, repo>>))>>)
    ELSE IF cur.v # des.v THEN
        LET old == from_str(GitHubRepository, cur.v)
            new == from_str(GitHubRepository, des.v)
        IN  IF from_utf8(cur.v).tag = "Err" THEN from_utf8(cur.v)
            ELSE IF from_utf8(des.v).tag = "Err" THEN from_utf8(des.v)
            ELSE IF old.tag = "Err" THEN old
            ELSE IF new.tag = "Err" THEN new
            ELSE Ok(<<connector_op(UpdateRepository(old.val, new.val),
                        format("Update GitHub repository {}/{}\n{}",
                               <<owner, repo, diff_ron_values(GitHubRepository, old.val, new.val)>>))>>)
    ELSE Ok(<<>>)

(* The Repository arm of do_plan's match on the address. *)
plan_repository(owner, repo, cur, des) ==
    IF ~cur.some /\ ~des.some THEN Ok(<<>>)
    ELSE IF ~cur.some THEN
        LET new == decode(GitHubRepository, des.v)
        IN  IF new.tag = "Err" THEN new
            ELSE Ok(<<connector_op(CreateRepository(new.val), format("Create GitHub repository {}/{}", <<owner, repo>>))>>)
    ELSE IF ~des.some THEN Ok(<<connector_op(DeleteRepository, format("Delete GitHub repository {}/{}", <<owner, repo>>))>>)
    ELSE IF cur.v # des.v THEN
        LET old == from_str(GitHubRepository, cur.v)
            new == from_str(GitHubRepository, des.v)
        IN  IF from_utf8(cur.v).tag = "Err" THEN from_utf8(cur.v)
            ELSE IF from_utf8(des.v).tag = "Err" THEN from_utf8(des.v)
            ELSE IF old.tag = "Err" THEN old
            ELSE IF new.tag = "Err" THEN new
            ELSE Ok(<<connector_op(UpdateRepository(old.val, new.val),
                        format("Update GitHub repository {}/{}\n{}",
                               <<owner, repo, diff_ron_values(GitHubRepository, old.val, new.val)>>))>>)
    ELSE Ok(<<>>)

(* The BranchProtection arm with descriptions that leave the branch out. *)
plan_branch_protection_no_branch(owner, repo, branch, cur, des) ==
    IF ~cur.some /\ ~des.some THEN Ok(<<>>)
    ELSE IF ~cur.some THEN
        LET new == decode(BranchProtection, des.v)
        IN  IF new.tag = "Err" THEN new
            ELSE Ok(<<connector_op(CreateBranchProtection(new.val), format("Create branch protection for {}/{}",
                                   <<owner, repo>>))>>)
    ELSE IF ~des.some THEN Ok(<<connector_op(DeleteBranchProtection, format("Delete branch protection for {}/{}",
                                   <<owner, repo>>))>>)
    ELSE IF cur.v # des.v THEN
        LET old == from_str(BranchProtection, cur.v)
            new == from_str(BranchProtection, des.v)
        IN  IF from_utf8(cur.v).tag = "Err" THEN from_utf8(cur.v)
            ELSE IF from_utf8(des.v).tag = "Err" THEN from_utf8(des.v)
            ELSE IF old.tag = "Err" THEN old
            ELSE IF new.tag = "Err" THEN new
            ELSE Ok(<<connector_op(UpdateBranchProtection(old.val, new.val),
                        format("Update branch protection for {}/{}\n{}",
                               <<owner, repo,
                                 diff_ron_values(BranchProtection, old.val, new.val)>>))>>)
    ELSE Ok(<<>>)

(* The BranchProtection arm. *)
plan_branch_protection(owner, repo, branch, cur, des) ==
    IF ~cur.some /\ ~des.some THEN Ok(<<>>)
    ELSE IF ~cur.some THEN
        LET new == decode(BranchProtection, des.v)
        IN  IF new.tag = "Err" THEN new
            ELSE Ok(<<connector_op(CreateBranchProtection(new.val), format("Create branch protection for {}/{} branch {}",
                                   <<owner, repo, branch>>))>>)
    ELSE IF ~des.some THEN Ok(<<connector_op(DeleteBranchProtection, format("Delete branch protection for {}/{} branch {}",
                                   <<owner, repo, branch>>))>>)
    ELSE IF cur.v # des.v THEN
        LET old == from_str(BranchProtection, cur.v)
            new == from_str(BranchProtection, des.v)
        IN  IF from_utf8(cur.v).tag = "Err" THEN from_utf8(cur.v)
            ELSE IF from_utf8(des.v).tag = "Err" THEN from_utf8(des.v)
            ELSE IF old.tag = "Err" THEN old
            ELSE IF new.tag = "Err" THEN new
            ELSE Ok(<<connector_op(UpdateBranchProtection(old.val, new.val),
                        format("Update branch protection for {}/{} branch {}\n{}",
                               <<owner, repo, branch,
                                 diff_ron_values(BranchProtection, old.val, new.val)>>))>>)
    ELSE Ok(<<>>)

(* The Collaborator arm. *)
plan_collaborator(owner, repo, username, cur, des) ==
    IF ~cur.some /\ ~des.some THEN Ok(<<>>)
    ELSE IF ~cur.some THEN
        LET new == decode(Collaborator, des.v)
        IN  IF new.tag = "Err" THEN new
            ELSE Ok(<<connector_op(AddCollaborator(new.val), format("Add collaborator {} to {}/{}", <<username, owner, repo>>))>>)
    ELSE IF ~des.some THEN Ok(<<connector_op(RemoveCollaborator, format("Remove collaborator {} from {}/{}", <<username, owner, repo>>))>>)
    ELSE IF cur.v # des.v THEN
        LET old == from_str(Collaborator, cur.v)
            new == from_str(Collaborator, des.v)
        IN  IF from_utf8(cur.v).tag = "Err" THEN from_utf8(cur.v)
            ELSE IF from_utf8(des.v).tag = "Err" THEN from_utf8(des.v)
            ELSE IF old.tag = "Err" THEN old
            ELSE IF new.tag = "Err" THEN new
            ELSE Ok(<<connector_op(UpdateCollaboratorPermission(old.val, new.val),
                        format("Update collaborator {} permissions for {}/{}",
                               <<username, owner, repo>>))>>)
    ELSE Ok(<<>>)

do_plan(p, cur, des) ==
    LET a == from_path(p)
    IN  IF a.tag # "Ok" THEN a
        ELSE CASE a.val.kind = "Config" -> Ok(<<>>)
               [] a.val.kind = "Repository" ->
                    plan_repository(a.val.owner, a.val.repo, cur, des)
               [] a.val.kind = "BranchProtection" ->
                    plan_branch_protection(a.val.owner, a.val.repo, a.val.branch, cur, des)
               [] a.val.kind = "Collaborator" ->
                    plan_collaborator(a.val.owner, a.val.repo, a.val.username, cur, des)

-----------------------------------------------------------------------------
(* connector.rs: eq, diag *)

(* ron_check_eq::<T>(a, b): both sides decoded, then compared. *)
ron_check_eq(schema, a, b) ==
    LET x == decode(schema, a)
        y == decode(schema, b)
    IN  IF x.tag = "Err" THEN x
        ELSE IF y.tag = "Err" THEN y
        ELSE Ok(x.val = y.val)

(* ron_check_syntax::<T>(a): Ok(None) when a decodes, Ok(Some(diagnostic)) *)
(* carrying the parser's error otherwise.                                  *)
ron_check_syntax(schema, a) ==
    LET x == decode(schema, a)
    IN  IF x.tag = "Err" THEN Ok(Some([severity |-> "error", kind |-> x.kind, info |-> x.info]))
        ELSE Ok(None)

(* The matches of eq and diag have arms for Config, Repository and         *)
(* BranchProtection only; a Collaborator address has no arm to take.       *)
NoMatchArm == Err("NoMatchArm", <<>>)

eq(p, a, b) ==
    LET r == from_path(p)
    IN  IF r.tag # "Ok" THEN r
        ELSE CASE r.val.kind = "Config" -> ron_check_eq(GitHubConnectorConfig, a, b)
               [] r.val.kind = "Repository" -> ron_check_eq(GitHubRepository, a, b)
               [] r.val.kind = "BranchProtection" -> ron_check_eq(BranchProtection, a, b)
               [] OTHER -> NoMatchArm

diag(p, a) ==
    LET r == from_path(p)
    IN  IF r.tag # "Ok" THEN r
        ELSE CASE r.val.kind = "Config" -> ron_check_syntax(GitHubConnectorConfig, a)
               [] r.val.kind = "Repository" -> ron_check_syntax(GitHubRepository, a)
               [] r.val.kind = "BranchProtection" -> ron_check_syntax(BranchProtection, a)
               [] OTHER -> NoMatchArm

-----------------------------------------------------------------------------
(* resource.rs: Role *)

Read == [variant |-> "Read"]
Triage == [variant |-> "Triage"]
Write == [variant |-> "Write"]
Maintain == [variant |-> "Maintain"]
Admin == [variant |-> "Admin"]
Custom(s) == [variant |-> "Custom", s |-> s]

Role_to_string(r) ==
    CASE r = Read -> "read"
      [] r = Triage -> "triage"
      [] r = Write -> "write"
      [] r = Maintain -> "maintain"
      [] r = Admin -> "admin"
      [] OTHER -> r.s

Role_from_str(s) ==
    CASE s = "read" -> Read
      [] s = "triage" -> Triage
      [] s = "write" -> Write
      [] s = "maintain" -> Maintain
      [] s = "admin" -> Admin
      [] OTHER -> Custom(s)

-----------------------------------------------------------------------------
(* op.rs: from_str; connector/op_exec.rs *)

OpVariants ==
    {"CreateRepository", "UpdateRepository", "DeleteRepository",
     "CreateBranchProtection", "UpdateBranchProtection", "DeleteBranchProtection",
     "AddCollaborator", "UpdateCollaboratorPermission", "RemoveCollaborator"}

(* How many bodies each variant carries. *)
Arity(variant) ==
    IF variant \in {"CreateRepository", "CreateBranchProtection", "AddCollaborator"} THEN 1
    ELSE IF variant \in {"UpdateRepository", "UpdateBranchProtection",
                          "UpdateCollaboratorPermission"} THEN 2
    ELSE 0

(* GitHubConnectorOp::from_str: RON.from_str(s) of an operation text. *)
op_from_str(text) ==
    LET schema == OpSchema([op |-> text.variant])
        b(i) == from_str(schema, text.bodies[i])
    IN  IF text.variant \notin OpVariants THEN ParseError("unknown variant", "")
        ELSE IF Len(text.bodies) # Arity(text.variant) THEN ParseError("wrong number of bodies", "")
        ELSE IF \E i \in 1..Len(text.bodies) : ~text.bodies[i].utf8
            THEN ParseError("invalid utf-8", "")
        ELSE IF Len(text.bodies) >= 1 /\ b(1).tag = "Err" THEN b(1)
        ELSE IF Len(text.bodies) = 2 /\ b(2).tag = "Err" THEN b(2)
        ELSE IF Len(text.bodies) = 2
            THEN Ok([op |-> text.variant, old |-> b(1).val, new |-> b(2).val])
        ELSE IF Len(text.bodies) = 1 THEN Ok([op |-> text.variant, new |-> b(1).val])
        ELSE Ok([op |-> text.variant])

invalid_op(a, o) == Err("InvalidOp", [addr |-> a, op |-> o])

(* A remote API call: the client method, its arguments and the request     *)
(* body it sends.                                                          *)
Call(api, args, body) == [api |-> api, args |-> args, body |-> body]

(* bail!(...) after a failed remote call. *)
bail(fmt, args) == Err("RemoteFailure", format(fmt, args))

(* The fields of a body that a request struct copies. *)
Copy(body, names) == [n \in names |-> body[n].tok]

CreateRepositoryRequest ==
    {"description", "homepage", "private", "has_issues", "has_projects", "has_wiki",
     "allow_squash_merge", "allow_merge_commit", "allow_rebase_merge", "allow_auto_merge",
     "delete_branch_on_merge", "default_branch"}

UpdateRepositoryRequest == CreateRepositoryRequest \cup {"archived"}

CreateBranchProtectionRequest == SchemaNames(BranchProtection)

AddCollaboratorRequest(body) == [permission |-> body["role_name"].tok]

(* One remote call and the response built from its outcome. *)
Remote(call, ok, done, failed, args) ==
    [result |-> IF ok THEN Ok(format(done, args)) ELSE bail(failed, args), calls |-> <<call>>]

NoCall(result) == [result |-> result, calls |-> <<>>]

(* The Repository arm of do_op_exec. *)
exec_repository(a, o, ok) ==
    LET id == <<a.owner, a.repo>>
    IN  CASE o.op = "CreateRepository" ->
                Remote(Call("create_repository", <<a.owner>>,
                            [name |-> a.repo] @@ Copy(o.new, CreateRepositoryRequest)),
                       ok, "Created GitHub repository {}/{}",
                       "Failed to create repository {}/{}: {}", id)
          [] o.op = "UpdateRepository" ->
                Remote(Call("update_repository", id, Copy(o.new, UpdateRepositoryRequest)),
                       ok, "Updated GitHub repository {}/{}",
                       "Failed to update repository {}/{}: {:#?}", id)
          [] o.op = "DeleteRepository" ->
                Remote(Call("delete_repository", id, <<>>),
                       ok, "Deleted GitHub repository {}/{}",
                       "Failed to delete repository {}/{}: {:#?}", id)
          [] OTHER -> NoCall(invalid_op(a, o))

(* The BranchProtection arm. *)
exec_branch_protection(a, o, ok) ==
    LET id == <<a.owner, a.repo, a.branch>>
    IN  CASE o.op = "CreateBranchProtection" ->
                Remote(Call("create_branch_protection", id,
                            Copy(o.new, CreateBranchProtectionRequest)),
                       ok, "Created branch protection for {}/{} branch {}",
                       "Failed to create branch protection for {}/{} branch {}: {:#?}", id)
          [] o.op = "UpdateBranchProtection" ->
                Remote(Call("update_branch_protection", id,
                            Copy(o.new, CreateBranchProtectionRequest)),
                       ok, "Updated branch protection for {}/{} branch {}",
                       "Failed to update branch protection for {}/{} branch {}: {:#?}", id)
          [] o.op = "DeleteBranchProtection" ->
                Remote(Call("delete_branch_protection", id, <<>>),
                       ok, "Removed branch protection for {}/{} branch {}",
                       "Failed to remove branch protection for {}/{} branch {}: {:#?}", id)
          [] OTHER -> NoCall(invalid_op(a, o))

(* The Collaborator arm. *)
exec_collaborator(a, o, ok) ==
    LET id == <<a.owner, a.repo, a.username>>
        msg == <<a.username, a.owner, a.repo>>
    IN  CASE o.op = "AddCollaborator" ->
                Remote(Call("add_collaborator", id, AddCollaboratorRequest(o.new)),
                       ok, "Added collaborator {} to {}/{}",
                       "Failed to add collaborator {} to {}/{}: {}", msg)
          [] o.op = "UpdateCollaboratorPermission" ->
                Remote(Call("update_collaborator_permission", id, AddCollaboratorRequest(o.new)),
                       ok, "Updated collaborator {} permissions for {}/{}",
                       "Failed to update collaborator {} permissions for {}/{}: {:#?}", msg)
          [] o.op = "RemoveCollaborator" ->
                Remote(Call("remove_collaborator", id, <<>>),
                       ok, "Removed collaborator {} from {}/{}",
                       "Failed to remove collaborator {} from {}/{}: {:#?}", msg)
          [] OTHER -> NoCall(invalid_op(a, o))

(* A do_op_exec without the Collaborator arm. *)
do_op_exec_no_collaborator(p, text, ok) ==
    LET a == from_path(p)
        o == op_from_str(text)
    IN  IF a.tag # "Ok" THEN NoCall(a)
        ELSE IF o.tag # "Ok" THEN NoCall(o)
        ELSE CASE a.val.kind = "Config" -> NoCall(invalid_op(a.val, o.val))
               [] a.val.kind = "Repository" -> exec_repository(a.val, o.val, ok)
               [] a.val.kind = "BranchProtection" -> exec_branch_protection(a.val, o.val, ok)
               [] a.val.kind = "Collaborator" -> NoCall(invalid_op(a.val, o.val))

(* do_op_exec(addr, op): the response and the remote calls made, ok being  *)
(* whether the remote call succeeds.                                       *)
do_op_exec(p, text, ok) ==
    LET a == from_path(p)
        o == op_from_str(text)
    IN  IF a.tag # "Ok" THEN NoCall(a)
        ELSE IF o.tag # "Ok" THEN NoCall(o)
        ELSE CASE a.val.kind = "Config" -> NoCall(invalid_op(a.val, o.val))
               [] a.val.kind = "Repository" -> exec_repository(a.val, o.val, ok)
               [] a.val.kind = "BranchProtection" -> exec_branch_protection(a.val, o.val, ok)
               [] a.val.kind = "Collaborator" -> exec_collaborator(a.val, o.val, ok)

-----------------------------------------------------------------------------
(* Inputs *)

RECURSIVE SeqsOfLen(_, _)
SeqsOfLen(S, n) ==
    IF n = 0 THEN {<<>>}
    ELSE {Append(q, x) : q \in SeqsOfLen(S, n - 1), x \in S}

SeqsUpTo(S, n) == UNION {SeqsOfLen(S, k) : k \in 0..n}

O == <<"o">>
R == <<"r">>
M == <<"m">>
U == <<"u">>

(* Identifier strings: letters, and the two characters a path treats       *)
(* specially.                                                              *)
IdAlphabet == {"a", ".", "/"}
Idents == SeqsUpTo(IdAlphabet, MaxIdLen) \ {<<>>}

AllAddrs ==
    {Config}
    \cup {Repository(O, i) : i \in Idents}
    \cup {Repository(i, R) : i \in Idents}
    \cup {Repository(<<"a", "/">>, <<"a">>), Repository(<<"a">>, <<"/", "a">>)}
    \cup {BranchProtectionAddr(O, R, i) : i \in Idents}
    \cup {CollaboratorAddr(O, R, i) : i \in Idents}

BasicAddrs == {Config, Repository(O, R), BranchProtectionAddr(O, R, M), CollaboratorAddr(O, R, U)}

(* Paths a host can hand over that no address was formatted to. *)
RawPaths ==
    { <<>>,
      GITHUB,
      JoinSlash(<<GITHUB, <<"n","o","t">>, <<"a">>, <<"k","n","o","w","n">>, <<"s","h","a","p","e">> >>),
      <<SLASH>> \o JoinSlash(<<GITHUB, O, R, REPOSITORY_RON>>),
      JoinSlash(<<GITHUB, <<>>, O, R, REPOSITORY_RON>>),
      JoinSlash(<<GITHUB, O, R, COLLABORATORS, U>>),
      JoinSlash(<<GITHUB, O, R, COLLABORATORS, DOT_RON>>),
      JoinSlash(<<GITHUB, <<BADBYTE>>, R, REPOSITORY_RON>>),
      JoinSlash(<<GITHUB, O, R, BRANCHES, <<BADBYTE>>, <<"x">> >>) }

Principals == {User("alice"), User("bob")}
Roles == {"Read", "Write"}

(* Map literals that write each principal at most once, in any order. *)
CollabEntries ==
    {q \in SeqsUpTo(Principals \X Roles, Cardinality(Principals)) :
        \A i, j \in 1..Len(q) : i # j => q[i][1] # q[j][1]}

AliceWrite == << <<User("alice"), "Write">> >>

RepositoryBuffers ==
    {Buf("GitHubRepository", <<MapField("collaborators", m)>>) : m \in CollabEntries}
    \cup {Buf(nm, fs) :
            nm \in {"", "GitHubRepository"},
            fs \in { <<>>,
                     <<Field("private", "false")>>,
                     <<Field("private", "true")>>,
                     <<Field("private", "false"), MapField("collaborators", AliceWrite)>>,
                     <<MapField("collaborators", AliceWrite), Field("private", "false")>>,
                     <<Field("visibility", "\"main\"")>>,
                     <<Field("private", "\"main\"")>>,
                     <<Field("private", "\"main\""), Field("visibility", "true")>> }}
    \cup {NotUtf8, Buf("BranchProtection", <<>>),
          Buf("", <<Field("private", "true"), Field("private", "true")>>)}

(* A branch-protection text with every field written, in declaration order. *)
ProtectionFields(checks, lock) ==
    << Field("required_status_checks", checks),
       Field("enforce_admins", "true"),
       Field("required_pull_request_reviews", "None"),
       Field("restrictions", "None"),
       Field("required_linear_history", "false"),
       Field("allow_force_pushes", "false"),
       Field("allow_deletions", "false"),
       Field("block_creations", "false"),
       Field("required_conversation_resolution", "true"),
       Field("lock_branch", lock),
       Field("allow_fork_syncing", "true") >>

Reverse(q) == [i \in 1..Len(q) |-> q[Len(q) + 1 - i]]

BranchProtectionBuffers ==
    {Buf(nm, fs) :
        nm \in {"", "BranchProtection"},
        fs \in UNION {{ProtectionFields(c, l), Reverse(ProtectionFields(c, l)),
                       Tail(ProtectionFields(c, l))} :
                        c \in Tokens("Option<RequiredStatusChecks>"), l \in Tokens("bool")}}
    \cup {Buf("BranchProtection", fs) :
            fs \in { Append(ProtectionFields("None", "false"), Field("visibility", "true")),
                     SubSeq(ProtectionFields("None", "false"), 1, 9),
                     <<>> }}
    \cup {NotUtf8, Buf("GitHubRepository", <<>>)}

CollaboratorFields(role_name) ==
    << Field("permissions", "(pull:true,triage:false,push:false,maintain:false,admin:false)"),
       Field("role_name", role_name) >>

CollaboratorBuffers ==
    {Buf(nm, fs) :
        nm \in {"", "Collaborator"},
        fs \in UNION {{CollaboratorFields(r), Reverse(CollaboratorFields(r))} :
                        r \in {"\"read\"", "\"write\""}}}
    \cup {Buf("Collaborator", Append(CollaboratorFields("\"read\""), Field("visibility", "true"))),
          NotUtf8}

ConfigFields(n) ==
    << Field("orgs", "[]"), Field("users", "[\"t\"]"),
       Field("enterprise_url", "None"), Field("concurrent_requests", n) >>

ConfigBuffers ==
    {Buf(nm, fs) :
        nm \in {"", "GitHubConnectorConfig"},
        fs \in {ConfigFields("5"), ConfigFields("3"), Reverse(ConfigFields("5"))}}
    \cup {Buf("", Append(ConfigFields("5"), Field("visibility", "true")))}

BuffersOf(kind) ==
    CASE kind = "Config" -> ConfigBuffers
      [] kind = "Repository" -> RepositoryBuffers
      [] kind = "BranchProtection" -> BranchProtectionBuffers
      [] kind = "Collaborator" -> CollaboratorBuffers

Option(S) == {None} \cup {Some(x) : x \in S}

NoResult == [tag |-> "None"]

-----------------------------------------------------------------------------
(* The host: it holds a typed address, or a raw path, and the current and  *)
(* desired bodies of that address, and calls the connector.                *)

(* The host works on addresses only: any address, any raw path, no bodies. *)
InitAddressing ==
    /\ addr \in AllAddrs
    /\ path \in RawPaths
    /\ current = None
    /\ desired = None

(* The host reconciles one address with bodies of its kind. *)
InitPlanning ==
    /\ addr \in BasicAddrs
    /\ path = to_path_buf(addr)
    /\ current \in Option(BuffersOf(addr.kind))
    /\ desired \in Option(BuffersOf(addr.kind))

(* No operation text, no role conversion in hand. *)
NoRequest == request = None
NoRole == role = None /\ perm = ""
NoRemote == remote = None

(* GitHubConnectorConfig::default().  The init field of a configuration,   *)
(* a semaphore or a client says which init call wrote it.                  *)
DefaultConfig ==
    [init |-> 0, orgs |-> <<>>, users |-> <<>>, enterprise_url |-> None,
     concurrent_requests |-> DefaultConcurrentRequests]

(* GitHubConnector::default(), as new() builds the connector: the default  *)
(* configuration, a semaphore of one permit, the default client; no call   *)
(* in progress.                                                            *)
Tasks == 1..NumTasks

IdleTask == [call |-> "idle", pc |-> "idle", config_seen |-> None, client_seen |-> None]

ConnectorNew ==
    /\ config = DefaultConfig
    /\ semaphore = [init |-> 0, permits |-> ConstNewPermits]
    /\ client = [init |-> 0]
    /\ init_call = [pc |-> "idle", n |-> 0, file |-> FALSE, loaded |-> None, before |-> None,
                    result |-> NoResult]
    /\ tasks = [t \in Tasks |-> IdleTask]

Init ==
    /\ (InitAddressing \/ InitPlanning)
    /\ op = "init"
    /\ out = NoResult
    /\ prev = None
    /\ NoRequest /\ NoRole /\ ConnectorNew /\ NoRemote

(* addr.to_path_buf() *)
Encode ==
    /\ path' = to_path_buf(addr)
    /\ op' = "to_path_buf"
    /\ out' = NoResult
    /\ prev' = None
    /\ UNCHANGED <<addr, current, desired>>
    /\ UNCHANGED <<request, rolevars, remotevars, connvars>>

(* GitHubResourceAddress::from_path(path) *)
Decode ==
    /\ out' = from_path(path)
    /\ op' = "from_path"
    /\ prev' = None
    /\ UNCHANGED <<addr, path, current, desired>>
    /\ UNCHANGED <<request, rolevars, remotevars, connvars>>

(* connector.plan(path, current, desired); prev keeps what the call before  *)
(* returned when that call was a plan of the same path and bodies.         *)
Plan ==
    /\ out' \in PlanResponses(do_plan(path, current, desired))
    /\ prev' = (IF op = "plan" THEN Some(out) ELSE None)
    /\ op' = "plan"
    /\ UNCHANGED <<addr, path, current, desired>>
    /\ UNCHANGED <<request, rolevars, remotevars, connvars>>

(* connector.eq(path, current, desired) *)
Eq ==
    /\ current.some /\ desired.some
    /\ out' = eq(path, current.v, desired.v)
    /\ op' = "eq"
    /\ prev' = None
    /\ UNCHANGED <<addr, path, current, desired>>
    /\ UNCHANGED <<request, rolevars, remotevars, connvars>>

(* connector.diag(path, desired) *)
Diag ==
    /\ desired.some
    /\ out' = diag(path, desired.v)
    /\ op' = "diag"
    /\ prev' = None
    /\ UNCHANGED <<addr, path, current, desired>>
    /\ UNCHANGED <<request, rolevars, remotevars, connvars>>

Next == Encode \/ Decode \/ Plan \/ Eq \/ Diag

Spec == Init /\ [][Next]_vars

-----------------------------------------------------------------------------
(* The host executes one operation text at one address. *)

RepositoryBodies ==
    {decode(GitHubRepository, b).val :
        b \in {Buf("", <<>>),
                Buf("", <<Field("private", "false"), MapField("collaborators", AliceWrite)>>)}}

BranchProtectionBodies ==
    {decode(BranchProtection, Buf("", ProtectionFields("None", l))).val : l \in Tokens("bool")}

CollaboratorBodies ==
    {decode(Collaborator, Buf("", CollaboratorFields(r))).val : r \in {"\"read\"", "\"write\""}}

OpInputs ==
    {CreateRepository(b) : b \in RepositoryBodies}
    \cup {UpdateRepository(a, b) : a, b \in RepositoryBodies}
    \cup {DeleteRepository}
    \cup {CreateBranchProtection(b) : b \in BranchProtectionBodies}
    \cup {UpdateBranchProtection(a, b) : a, b \in BranchProtectionBodies}
    \cup {DeleteBranchProtection}
    \cup {AddCollaborator(b) : b \in CollaboratorBodies}
    \cup {UpdateCollaboratorPermission(a, b) : a, b \in CollaboratorBodies}
    \cup {RemoveCollaborator}

(* Operation texts: those to_string writes, and texts that do not parse. *)
RequestTexts ==
    UNION {to_string(o) : o \in OpInputs}
    \cup { [variant |-> "RenameRepository", bodies |-> <<>>],
           [variant |-> "CreateRepository", bodies |-> <<Buf("", <<Field("visibility", "true")>>)>>],
           [variant |-> "DeleteRepository", bodies |-> <<Buf("", <<>>)>>] }

ExecInit ==
    /\ addr \in BasicAddrs
    /\ path = to_path_buf(addr)
    /\ request \in {Some(t) : t \in RequestTexts}
    /\ current = None /\ desired = None /\ prev = None
    /\ op = "init"
    /\ out = NoResult
    /\ NoRole /\ ConnectorNew /\ NoRemote

(* connector.op_exec(path, request), the remote call succeeding or not. *)
OpExec ==
    /\ request.some
    /\ \E ok \in BOOLEAN : out' = do_op_exec(path, request.v, ok)
    /\ op' = "op_exec"
    /\ UNCHANGED <<addr, path, planvars, request, rolevars, remotevars, connvars>>

ExecNext == OpExec

ExecSpec == ExecInit /\ [][ExecNext]_vars

-----------------------------------------------------------------------------
(* Roles and permission strings converted one into the other. *)

PermissionStrings ==
    {"read", "triage", "write", "maintain", "admin", "pull", "push", "Read", "security-reviewer", ""}

AllRoles == {Read, Triage, Write, Maintain, Admin} \cup {Custom(s) : s \in PermissionStrings}

RoleInit ==
    /\ role \in AllRoles
    /\ perm \in PermissionStrings
    /\ addr = Config /\ path = <<>>
    /\ current = None /\ desired = None /\ prev = None
    /\ op = "init"
    /\ out = NoResult
    /\ NoRequest /\ ConnectorNew /\ NoRemote

(* role.to_string() *)
RoleToString ==
    /\ out' = Role_to_string(role)
    /\ op' = "Role::to_string"
    /\ UNCHANGED <<addr, path, planvars, request, rolevars, remotevars, connvars>>

(* Role::from_str(perm) *)
RoleFromStr ==
    /\ out' = Role_from_str(perm)
    /\ op' = "Role::from_str"
    /\ UNCHANGED <<addr, path, planvars, request, rolevars, remotevars, connvars>>

RoleNext == RoleToString \/ RoleFromStr

RoleSpec == RoleInit /\ [][RoleNext]_vars

-----------------------------------------------------------------------------
(* The connector shared by an init call and concurrent get, list and       *)
(* op_exec calls.  Every await is a point where another call may run.      *)

(* The login of the authenticated identity, and the owners a file names. *)
Login == "octocat"
FileUsers == <<"u">>
FileOrgs == <<"org">>

(* What init has in hand after its match on try_load.  With a file:        *)
(* try_load fails, or gives the file's configuration.  Without one:        *)
(* get_client(None) or the request for the login fails, or the default     *)
(* configuration with the login as its only user.                          *)
LoadOutcomes(n) ==
    {[file |-> TRUE, r |-> Err("LoadError", <<>>)]}
    \cup {[file |-> TRUE,
            r |-> Ok([init |-> n, orgs |-> FileOrgs, users |-> FileUsers, enterprise_url |-> None,
                      concurrent_requests |-> k])] :
            k \in (1..MaxConcurrentRequests) \cup {DefaultConcurrentRequests}}
    \cup {[file |-> FALSE, r |-> Err("ClientError", <<>>)],
          [file |-> FALSE, r |-> Ok([DefaultConfig EXCEPT !.init = n, !.users = <<Login>>])]}

(* A configuration names users and orgs to list unless it is the one the   *)
(* connector is constructed with.                                          *)
HasOwners(c) == c.init # 0

Snapshot == <<config, semaphore, client>>

(* init, up to the configuration in hand (try_load and the None arm) *)
InitLoad ==
    /\ init_call.pc = "idle"
    /\ init_call.n < MaxInits
    /\ \E l \in LoadOutcomes(init_call.n + 1) :
        init_call' =
            IF l.r.tag = "Err"
                THEN [pc |-> "idle", n |-> init_call.n + 1, file |-> l.file, loaded |-> None,
                      before |-> Some(Snapshot), result |-> l.r]
            ELSE [pc |-> "loaded", n |-> init_call.n + 1, file |-> l.file, loaded |-> Some(l.r.val),
                  before |-> Some(Snapshot), result |-> NoResult]
    /\ UNCHANGED <<config, semaphore, client, tasks>>
    /\ UNCHANGED othervars

(* *self.config.write().await = config.clone() *)
InitWriteConfig ==
    /\ init_call.pc = "loaded"
    /\ config' = init_call.loaded.v
    /\ init_call' = [init_call EXCEPT !.pc = "config_written"]
    /\ UNCHANGED <<semaphore, client, tasks>>
    /\ UNCHANGED othervars

(* A semaphore sized to the default whatever the configuration says. *)
InitWriteSemaphore_default ==
    /\ init_call.pc = "config_written"
    /\ semaphore' = [init |-> init_call.n, permits |-> DefaultConcurrentRequests]
    /\ init_call' = [init_call EXCEPT !.pc = "semaphore_written"]
    /\ UNCHANGED <<config, client, tasks>>
    /\ UNCHANGED othervars

(* *self.semaphore.write().await = Semaphore::new(config.concurrent_requests) *)
InitWriteSemaphore ==
    /\ init_call.pc = "config_written"
    /\ semaphore' = [init |-> init_call.n, permits |-> init_call.loaded.v.concurrent_requests]
    /\ init_call' = [init_call EXCEPT !.pc = "semaphore_written"]
    /\ UNCHANGED <<config, client, tasks>>
    /\ UNCHANGED othervars

(* get_client(Some(config)).await? fails: init returns the error. *)
InitClientFails ==
    /\ init_call.pc = "semaphore_written"
    /\ init_call' = [init_call EXCEPT !.pc = "idle", !.result = Err("ClientError", <<>>)]
    /\ UNCHANGED <<config, semaphore, client, tasks>>
    /\ UNCHANGED othervars

(* A get call holds the read guard of the client while its request is out. *)
ClientReadGuards == {t \in Tasks : tasks[t].call = "get" /\ tasks[t].pc = "remote"}

(* *self.client.write().await = get_client(Some(config)).await?; Ok(()) *)
InitWriteClient ==
    /\ init_call.pc = "semaphore_written"
    /\ ClientReadGuards = {}
    /\ client' = [init |-> init_call.n]
    /\ init_call' = [init_call EXCEPT !.pc = "idle", !.result = Ok(<<>>)]
    /\ UNCHANGED <<config, semaphore, tasks>>
    /\ UNCHANGED othervars

(* Paths handed to get, and operation texts handed to op_exec. *)
CallPaths == {to_path_buf(a) : a \in BasicAddrs}
CallTexts == UNION {to_string(o) : o \in {DeleteRepository, DeleteBranchProtection, RemoveCollaborator}}

(* do_get reaches the client for a path that decodes to a resource. *)
GetReachesClient(p) == from_path(p).tag = "Ok" /\ from_path(p).val.kind # "Config"

(* get: from_path, then self.client.read().await.<request>.await *)
GetCall(t) ==
    /\ tasks[t].call = "idle"
    /\ \E p \in CallPaths :
        tasks' = IF GetReachesClient(p)
                    THEN [tasks EXCEPT ![t] = [call |-> "get", pc |-> "remote",
                                               config_seen |-> None, client_seen |-> Some(client)]]
                 ELSE tasks
    /\ UNCHANGED <<config, semaphore, client, init_call>>
    /\ UNCHANGED othervars

GetReturn(t) ==
    /\ tasks[t].call = "get" /\ tasks[t].pc = "remote"
    /\ tasks' = [tasks EXCEPT ![t] = IdleTask]
    /\ UNCHANGED <<config, semaphore, client, init_call>>
    /\ UNCHANGED othervars

(* list: let users = self.config.read().await.users.clone() *)
ListReadUsers(t) ==
    /\ tasks[t].call = "idle"
    /\ tasks' = [tasks EXCEPT ![t] = [call |-> "list", pc |-> "users",
                                       config_seen |-> Some(config), client_seen |-> None]]
    /\ UNCHANGED <<config, semaphore, client, init_call>>
    /\ UNCHANGED othervars

(* for user in users: self.client.read().await.clone(), then the requests  *)
(* of that user's repositories and branches                                *)
ListUserCall(t) ==
    /\ tasks[t].call = "list" /\ tasks[t].pc = "users"
    /\ HasOwners(tasks[t].config_seen.v)
    /\ tasks' = [tasks EXCEPT ![t].pc = "remote_user", ![t].client_seen = Some(client)]
    /\ UNCHANGED <<config, semaphore, client, init_call>>
    /\ UNCHANGED othervars

(* The requests are answered: the loop goes on, or list_repo_stream(..)?   *)
(* returns its error.                                                      *)
ListUserReturn(t) ==
    /\ tasks[t].call = "list" /\ tasks[t].pc = "remote_user"
    /\ \E ok \in BOOLEAN :
        tasks' = [tasks EXCEPT ![t] = IF ok THEN [@ EXCEPT !.pc = "users_done"] ELSE IdleTask]
    /\ UNCHANGED <<config, semaphore, client, init_call>>
    /\ UNCHANGED othervars

(* let orgs = self.config.read().await.orgs.clone(), after the users loop *)
ListReadOrgs(t) ==
    /\ tasks[t].call = "list"
    /\ \/ tasks[t].pc = "users_done"
       \/ tasks[t].pc = "users" /\ ~HasOwners(tasks[t].config_seen.v)
    /\ tasks' = [tasks EXCEPT ![t].pc = "orgs", ![t].config_seen = Some(config)]
    /\ UNCHANGED <<config, semaphore, client, init_call>>
    /\ UNCHANGED othervars

(* for org in orgs: self.client.read().await.clone(), then the requests *)
ListOrgCall(t) ==
    /\ tasks[t].call = "list" /\ tasks[t].pc = "orgs"
    /\ HasOwners(tasks[t].config_seen.v)
    /\ tasks' = [tasks EXCEPT ![t].pc = "remote_org", ![t].client_seen = Some(client)]
    /\ UNCHANGED <<config, semaphore, client, init_call>>
    /\ UNCHANGED othervars

(* Ok(results), or an error, after the orgs loop *)
ListReturn(t) ==
    /\ tasks[t].call = "list"
    /\ \/ tasks[t].pc = "remote_org"
       \/ tasks[t].pc = "orgs" /\ ~HasOwners(tasks[t].config_seen.v)
    /\ tasks' = [tasks EXCEPT ![t] = IdleTask]
    /\ UNCHANGED <<config, semaphore, client, init_call>>
    /\ UNCHANGED othervars

(* op_exec: from_path, from_str, self.client.read().await.clone(), then    *)
(* the request of the operation, unless the call returns before it.        *)
OpExecCall(t) ==
    /\ tasks[t].call = "idle"
    /\ \E p \in CallPaths, text \in CallTexts :
        tasks' = IF do_op_exec(p, text, TRUE).calls # <<>>
                    THEN [tasks EXCEPT ![t] = [call |-> "op_exec", pc |-> "remote",
                                               config_seen |-> None, client_seen |-> Some(client)]]
                 ELSE tasks
    /\ UNCHANGED <<config, semaphore, client, init_call>>
    /\ UNCHANGED othervars

OpExecReturn(t) ==
    /\ tasks[t].call = "op_exec" /\ tasks[t].pc = "remote"
    /\ tasks' = [tasks EXCEPT ![t] = IdleTask]
    /\ UNCHANGED <<config, semaphore, client, init_call>>
    /\ UNCHANGED othervars

ConnectorInit ==
    /\ ConnectorNew
    /\ addr = Config /\ path = <<>>
    /\ current = None /\ desired = None /\ prev = None
    /\ op = "init"
    /\ out = NoResult
    /\ NoRequest /\ NoRole /\ NoRemote

ConnectorNext ==
    \/ InitLoad \/ InitWriteConfig \/ InitWriteSemaphore \/ InitClientFails \/ InitWriteClient
    \/ \E t \in Tasks :
        \/ GetCall(t) \/ GetReturn(t)
        \/ ListReadUsers(t) \/ ListUserCall(t) \/ ListUserReturn(t)
        \/ ListReadOrgs(t) \/ ListOrgCall(t) \/ ListReturn(t)
        \/ OpExecCall(t) \/ OpExecReturn(t)


ConnectorSpec == ConnectorInit /\ [][ConnectorNext]_vars

-----------------------------------------------------------------------------
(* The shared connector with an init call, plan calls and one get, list or *)
(* op_exec call in progress.                                               *)

(* What plan is called with: an address, and a body to create or delete. *)
PlanCallInputs ==
    { <<Repository(O, R), None, Some(Buf("", <<>>))>>,
      <<Repository(O, R), Some(Buf("", <<>>)), None>>,
      <<BranchProtectionAddr(O, R, M), None, Some(Buf("", <<>>))>>,
      <<CollaboratorAddr(O, R, U), Some(Buf("", <<>>)), None>> }

(* What do_plan answers to each of them. *)
PlanCallResults ==
    [i \in PlanCallInputs |-> PlanResponses(do_plan(to_path_buf(i[1]), i[2], i[3]))]

(* plan: do_plan(addr, current, desired) and nothing else; do_plan has no  *)
(* await, takes no field of the connector, and returns in one step.        *)
PlanCall_reading_client ==
    /\ \E i \in PlanCallInputs :
        /\ path' = to_path_buf(i[1])
        /\ current' = i[2]
        /\ desired' = i[3]
        /\ out' \in IF client.init = 0 THEN {Err("ClientError", <<>>)} ELSE PlanCallResults[i]
    /\ op' = "plan"
    /\ prev' = None
    /\ UNCHANGED <<addr, request, rolevars, remotevars, connvars>>

PlanCall ==
    /\ \E i \in PlanCallInputs :
        /\ path' = to_path_buf(i[1])
        /\ current' = i[2]
        /\ desired' = i[3]
        /\ out' \in PlanCallResults[i]
    /\ op' = "plan"
    /\ prev' = None
    /\ UNCHANGED <<addr, request, rolevars, remotevars, connvars>>

(* The task that makes the get, list and op_exec calls. *)
Peers == {1}

OnePeerNext ==
    \/ PlanCall
    \/ InitLoad \/ InitWriteConfig \/ InitWriteSemaphore \/ InitClientFails \/ InitWriteClient
    \/ \E t \in Peers :
        \/ GetCall(t) \/ GetReturn(t)
        \/ ListReadUsers(t) \/ ListUserCall(t) \/ ListUserReturn(t)
        \/ ListReadOrgs(t) \/ ListOrgCall(t) \/ ListReturn(t)
        \/ OpExecCall(t) \/ OpExecReturn(t)

OnePeerSpec == ConnectorInit /\ [][OnePeerNext]_vars

-----------------------------------------------------------------------------
(* resource.rs: a resource body written to bytes and read back at an       *)
(* address.                                                                *)

(* GitHubResource::Repository(body), GitHubResource::BranchProtection(body) *)
GitHubResource(kind, body) == [kind |-> kind, body |-> body]

ResourceSchema(kind) == IF kind = "Repository" THEN GitHubRepository ELSE BranchProtection

invalid_addr(a) == Err("InvalidAddress", a)

(* GitHubResource::to_bytes: RON.to_string_pretty with struct names, the   *)
(* map entries in the order the HashMap hands them out.                    *)
to_bytes(res) == Texts(ResourceSchema(res.kind), res.body)

(* GitHubResource::from_bytes(addr, s) *)
from_bytes(a, s) ==
    LET r == from_path(to_path_buf(a))
    IN  IF r.tag # "Ok" THEN r
        ELSE IF from_utf8(s).tag = "Err" THEN from_utf8(s)
        ELSE IF r.val.kind \in {"Repository", "BranchProtection"}
            THEN LET d == from_str(ResourceSchema(r.val.kind), s)
                 IN  IF d.tag = "Ok" THEN Ok(GitHubResource(r.val.kind, d.val)) ELSE d
        ELSE invalid_addr(r.val)

(* Bodies a host can construct: defaults, and maps of no, one and two      *)
(* collaborators.                                                          *)
ResourceInputs ==
    {GitHubResource("Repository", decode(GitHubRepository, b).val) :
        b \in {Buf("", <<>>), Buf("", <<Field("private", "false")>>)}
              \cup {Buf("", <<MapField("collaborators", m)>>) : m \in CollabEntries}}
    \cup {GitHubResource("BranchProtection", b) : b \in BranchProtectionBodies}

(* Bytes that no to_bytes wrote. *)
ForeignBytes == {NotUtf8, Buf("", <<Field("visibility", "true")>>)}

BytesInit ==
    /\ addr \in AllAddrs
    /\ path = to_path_buf(addr)
    /\ current \in Option(ForeignBytes)
    /\ desired = None /\ prev = None
    /\ op = "init"
    /\ out = NoResult
    /\ NoRequest /\ NoRole /\ ConnectorNew /\ NoRemote

(* resource.to_bytes(): prev keeps the resource, current the bytes. *)
ToBytes ==
    /\ \E res \in ResourceInputs :
        /\ prev' = Some(res)
        /\ current' \in {Some(s) : s \in to_bytes(res)}
    /\ op' = "to_bytes"
    /\ out' = NoResult
    /\ UNCHANGED <<addr, path, desired, request, rolevars, remotevars, connvars>>

(* GitHubResource::from_bytes(addr, current) *)
FromBytes ==
    /\ current.some
    /\ out' = from_bytes(addr, current.v)
    /\ op' = "from_bytes"
    /\ UNCHANGED <<addr, path, planvars, request, rolevars, remotevars, connvars>>

BytesNext == ToBytes \/ FromBytes

BytesSpec == BytesInit /\ [][BytesNext]_vars

-----------------------------------------------------------------------------
(* connector/get.rs, and the remote service that get reads and op_exec     *)
(* writes.  The service holds, for the resource at an address, nothing or  *)
(* the value of each field that get reads.                                 *)

(* The fields of each kind that do_get fills from the service's answer. *)
GetFields(kind) ==
    CASE kind = "Repository" -> SchemaNames(GitHubRepository) \ {"collaborators"}
      [] kind = "BranchProtection" -> SchemaNames(BranchProtection)
      [] kind = "Collaborator" -> SchemaNames(Collaborator)
      [] kind = "Config" -> {}

KindSchema(kind) ==
    CASE kind = "Repository" -> GitHubRepository
      [] kind = "BranchProtection" -> BranchProtection
      [] kind = "Collaborator" -> Collaborator
      [] kind = "Config" -> GitHubConnectorConfig

(* The body do_get builds from the service's answer: each field it reads,  *)
(* and the collaborator map, which no field of the answer fills, empty.    *)
GetBody(kind, answer) ==
    [n \in SchemaNames(KindSchema(kind)) |->
        IF n \in GetFields(kind) THEN Value(answer[n], {}) ELSE Value("{..}", {})]

(* get_resource_response!(resource): the resource's bytes. *)
get_resource_response(kind, body) == {Ok(Some(s)) : s \in Texts(KindSchema(kind), body)}

(* do_get(addr) against the service holding rem at the address; ok is      *)
(* whether the request is answered rather than failing on its way.  The    *)
(* client answers Err both for a resource that does not exist and for a    *)
(* request that fails; both arms are Err(_) => Ok(None).                   *)
do_get(p, rem, ok) ==
    LET a == from_path(p)
    IN  IF a.tag # "Ok" THEN {a}
        ELSE IF a.val.kind = "Config" THEN {Ok(None)}
        ELSE IF ok /\ rem.some THEN get_resource_response(a.val.kind, GetBody(a.val.kind, rem.v))
        ELSE {Ok(None)}

(* What the service gives a new repository for the fields a create request *)
(* does not carry.                                                         *)
ServiceDefaults == [topics |-> "[]", archived |-> "false", disabled |-> "false"]

(* The permissions the service reports for a collaborator. *)
ServicePermissions == "(pull:true,triage:false,push:false,maintain:false,admin:false)"

(* The service after one call of op_exec has succeeded: a create or a put  *)
(* stores the fields of the request, an update changes the fields the      *)
(* request carries and no other, a delete removes the resource.            *)
Served(rem, call) ==
    CASE call.api = "create_repository" ->
            Some([n \in GetFields("Repository") |->
                    IF n \in DOMAIN call.body THEN call.body[n] ELSE ServiceDefaults[n]])
      [] call.api = "update_repository" ->
            IF rem.some
                THEN Some([n \in GetFields("Repository") |->
                            IF n \in DOMAIN call.body THEN call.body[n] ELSE rem.v[n]])
            ELSE rem
      [] call.api \in {"create_branch_protection", "update_branch_protection"} ->
            Some([n \in GetFields("BranchProtection") |-> call.body[n]])
      [] call.api \in {"add_collaborator", "update_collaborator_permission"} ->
            Some([permissions |-> ServicePermissions, role_name |-> call.body.permission])
      [] call.api \in {"delete_repository", "delete_branch_protection", "remove_collaborator"} ->
            None

RECURSIVE ServedAll(_, _)
ServedAll(rem, calls) ==
    IF calls = <<>> THEN rem ELSE ServedAll(Served(rem, Head(calls)), Tail(calls))

(* Bodies of each kind that a host asks for. *)
WithField(body, n, tok) == [body EXCEPT ![n] = Value(tok, {})]

DesiredBodies(kind) ==
    CASE kind = "Repository" ->
            LET d == decode(GitHubRepository, Buf("", <<>>)).val
            IN  {d, WithField(d, "private", "false"), WithField(d, "topics", "[\"t\"]"),
                 WithField(d, "disabled", "true"),
                 decode(GitHubRepository, Buf("", <<MapField("collaborators", AliceWrite)>>)).val}
      [] kind = "BranchProtection" -> BranchProtectionBodies
      [] kind = "Collaborator" -> CollaboratorBodies
      [] kind = "Config" -> {}

(* The bytes of those bodies as to_bytes writes them. *)
DesiredTexts(kind) == UNION {Texts(KindSchema(kind), b) : b \in DesiredBodies(kind)}

(* Bytes a host writes by hand: the empty body, and bytes that are not     *)
(* UTF-8.                                                                  *)
HostTexts == {Buf("", <<>>), NotUtf8}

(* What the service may hold at an address to begin with. *)
ServiceStates(kind) ==
    {None} \cup {Some([n \in GetFields(kind) |-> b[n].tok]) :
                    b \in {x \in DesiredBodies(kind) :
                            "collaborators" \in DOMAIN x => x["collaborators"].map = {}}}

(* The host's round: get, plan against desired, op_exec of every planned   *)
(* operation in order, then get and plan again.  stage says how far the    *)
(* round is, pending holds the planned operations not yet executed.        *)
Round(stage, pending) == Some([stage |-> stage, pending |-> pending])

RemoteInit ==
    /\ addr \in BasicAddrs
    /\ path = to_path_buf(addr)
    /\ remote \in ServiceStates(addr.kind)
    /\ desired \in Option(DesiredTexts(addr.kind) \cup HostTexts)
    /\ current = None
    /\ prev = Round("start", <<>>)
    /\ op = "init"
    /\ out = NoResult
    /\ NoRequest /\ NoRole /\ ConnectorNew

(* connector.get(path): the host keeps the answer as current. *)
RemoteGet ==
    /\ \E ok \in BOOLEAN :
        /\ out' \in do_get(path, remote, ok)
        /\ prev' = Round(IF ~ok \/ out'.tag # "Ok" THEN "start"
                         ELSE IF prev.v.stage = "applied" THEN "regot"
                         ELSE "got", <<>>)
    /\ current' = (IF out'.tag = "Ok" THEN out'.val ELSE None)
    /\ op' = "get"
    /\ UNCHANGED <<addr, path, desired, request, rolevars, remotevars, connvars>>

(* connector.plan(path, current, desired) on what get answered. *)
RemotePlan ==
    /\ prev.v.stage \in {"got", "regot"}
    /\ out' \in PlanResponses(do_plan(path, current, desired))
    /\ prev' = (IF prev.v.stage = "regot" THEN Round("replanned", <<>>)
                ELSE IF out'.tag # "Ok" THEN Round("start", <<>>)
                ELSE IF out'.val = <<>> THEN Round("applied", <<>>)
                ELSE Round("planned", out'.val))
    /\ op' = "plan"
    /\ UNCHANGED <<addr, path, current, desired, request, rolevars, remotevars, connvars>>

(* connector.op_exec(path, op_definition) of the next planned operation;   *)
(* the service changes when the call succeeds.                             *)
RemoteExec ==
    /\ prev.v.stage = "planned"
    /\ \E ok \in BOOLEAN :
        LET r == do_op_exec(path, Head(prev.v.pending).op_definition, ok)
        IN  /\ out' = r
            /\ remote' = (IF ok THEN ServedAll(remote, r.calls) ELSE remote)
            /\ prev' = (IF r.result.tag # "Ok" THEN Round("start", <<>>)
                        ELSE IF Tail(prev.v.pending) = <<>> THEN Round("applied", <<>>)
                        ELSE Round("planned", Tail(prev.v.pending)))
    /\ op' = "op_exec"
    /\ UNCHANGED <<addr, path, current, desired, request, rolevars, connvars>>

RemoteNext == RemoteGet \/ RemotePlan \/ RemoteExec

RemoteSpec == RemoteInit /\ [][RemoteNext]_vars

-----------------------------------------------------------------------------
(* connector/list.rs: the host asks what lives remotely under a subpath *)

V == <<"v">>
FX == <<"f", "/", "x">>

(* What the service holds for list: the login the token belongs to, the    *)
(* repositories by owner and name, and the branches of each with their     *)
(* protected flag.                                                         *)
Repo(owner, name) == [owner |-> owner, name |-> name]
Branch(name, protected) == [name |-> name, protected |-> protected]

Logins == {U, V}
RemoteRepos == {Repo(U, R), Repo(V, R), Repo(O, R)}
BranchSets == { {}, {Branch(M, TRUE)}, {Branch(M, FALSE), Branch(FX, TRUE)} }

ListRemotes ==
    UNION {{[login |-> l, repos |-> rs, branches |-> bs] : l \in Logins, bs \in [rs -> BranchSets]} :
            rs \in SUBSET RemoteRepos}

(* The users and orgs a loaded configuration may name. *)
ListConfigs ==
    {[DefaultConfig EXCEPT !.init = 1, !.users = us, !.orgs = os] :
        us \in { <<>>, <<U>>, <<V>>, <<U, U>>, <<U, V>> },
        os \in { <<>>, <<O>> }}

ListSubpaths ==
    { <<>>, GITHUB, JoinSlash(<<GITHUB, U>>), JoinSlash(<<GITHUB, O, R>>), <<"x">> }

(* Path::starts_with: whole components of base lead those of p. *)
starts_with(p, base) ==
    LET a == components(p)
        b == components(base)
    IN  Len(b) <= Len(a) /\ SubSeq(a, 1, Len(b)) = b

(* autoschematic_core::glob::addr_matches_filter(addr, filter): one of the *)
(* two paths leads the other.                                              *)
addr_matches_filter(a, filter) == starts_with(a, filter) \/ starts_with(filter, a)

(* PathBuf::from(format!("github/{owner}/")) *)
OwnerPrefix(owner) == GITHUB \o <<SLASH>> \o owner \o <<SLASH>>

RECURSIVE Concat(_)
Concat(seqs) == IF seqs = <<>> THEN <<>> ELSE Head(seqs) \o Concat(Tail(seqs))

(* The answers a request of one iteration may get: all succeed, the page   *)
(* request fails, a stream fails while it is read, or the branch request   *)
(* fails.                                                                  *)
ListAnswers == {"ok", "page_err", "stream_err", "branches_err"}

(* The protected branches that list_repo_branches(owner, name) answers     *)
(* with: those of the repository of that owner and name, in the order of   *)
(* the page; the request fails when there is no such repository.           *)
branch_paths(owner, name, rem, answer) ==
    IF answer = "branches_err" \/ Repo(owner, name) \notin rem.repos THEN <<>>
    ELSE LET bs == {b \in rem.branches[Repo(owner, name)] : b.protected}
             order == CHOOSE q \in Orders(bs) : TRUE
         IN  [i \in 1..Len(order) |->
                to_path_buf(BranchProtectionAddr(owner, name, order[i].name))]

(* Every repository of the page is pushed under the owner handed in, with  *)
(* the protected branches found under that owner and name.                 *)
list_repo_stream(owner, rem, page, answer) ==
    IF answer = "stream_err" THEN Err("RemoteFailure", <<>>)
    ELSE Ok(Concat([i \in 1..Len(page) |->
                <<to_path_buf(Repository(owner, page[i].name))>>
                \o branch_paths(owner, page[i].name, rem, answer)]))

(* One round of either loop of do_list.  A user's page is                  *)
(* current().list_repos_for_authenticated_user() with affiliation owner:   *)
(* the repositories of the login; an org's page is orgs(org).list_repos(). *)
list_owner(kind, owner, sub, rem, answer) ==
    LET of == IF kind = "user" THEN rem.login ELSE owner
        page == CHOOSE q \in Orders({r \in rem.repos : r.owner = of}) : TRUE
    IN  IF ~addr_matches_filter(OwnerPrefix(owner), sub) THEN Ok(<<>>)
        ELSE IF answer = "page_err" THEN Ok(<<>>)
        ELSE list_repo_stream(owner, rem, page, answer)

(* do_list(subpath): the users loop, then the orgs loop; `?` returns the   *)
(* first error of a stream.  answers[i] is what the requests of round i    *)
(* get.                                                                    *)
do_list(cfg, sub, rem, answers) ==
    LET nu == Len(cfg.users)
        n == nu + Len(cfg.orgs)
        round(i) == IF i <= nu
                        THEN list_owner("user", cfg.users[i], sub, rem, answers[i])
                    ELSE list_owner("org", cfg.orgs[i - nu], sub, rem, answers[i])
        failed == {i \in 1..n : round(i).tag = "Err"}
    IN  IF failed # {} THEN round(CHOOSE i \in failed : \A j \in failed : i <= j)
        ELSE Ok(Concat([i \in 1..n |-> round(i).val]))

ListInit ==
    /\ addr = Config
    /\ path \in ListSubpaths
    /\ current = None
    /\ desired = None
    /\ op = "init"
    /\ out = NoResult
    /\ prev = None
    /\ NoRequest /\ NoRole
    /\ config \in ListConfigs
    /\ semaphore = [init |-> 1, permits |-> DefaultConcurrentRequests]
    /\ client = [init |-> 1]
    /\ init_call = [pc |-> "idle", n |-> 1, file |-> TRUE, loaded |-> None, before |-> None,
                    result |-> Ok(<<>>)]
    /\ tasks = [t \in Tasks |-> IdleTask]
    /\ remote \in ListRemotes

(* connector.list(subpath), called once: the call leaves nothing behind    *)
(* that a later call could read.                                           *)
List ==
    /\ op = "init"
    /\ \E answers \in [1..(Len(config.users) + Len(config.orgs)) -> ListAnswers] :
            out' = do_list(config, path, remote, answers)
    /\ op' = "list"
    /\ prev' = None
    /\ UNCHANGED <<addr, path, current, desired>>
    /\ UNCHANGED <<request, rolevars, remotevars, connvars>>

ListNext == List

ListSpec == ListInit /\ [][ListNext]_vars

-----------------------------------------------------------------------------
(* connector.rs: the host asks what kind of file a path is *)

(* FilterResponse::Config, ::Resource and ::none() *)
FilterResponses == {"Config", "Resource", "none"}

(* filter(addr): to_str().unwrap() inside from_path panics on a component  *)
(* that is not UTF-8; every error of from_path is FilterResponse::none().  *)
filter(p) ==
    LET d == from_path(p)
    IN  IF d.tag = "Panic" THEN Panic
        ELSE IF d.tag = "Ok"
            THEN (IF d.val.kind = "Config" THEN Ok("Config") ELSE Ok("Resource"))
        ELSE Ok("none")

FilterInit ==
    /\ InitAddressing
    /\ op = "init"
    /\ out = NoResult
    /\ prev = None
    /\ NoRequest /\ NoRole /\ ConnectorNew /\ NoRemote

(* connector.filter(path) *)
Filter ==
    /\ out' = filter(path)
    /\ op' = "filter"
    /\ prev' = None
    /\ UNCHANGED <<addr, path, current, desired>>
    /\ UNCHANGED <<request, rolevars, remotevars, connvars>>

FilterNext == Encode \/ Filter

FilterSpec == FilterInit /\ [][FilterNext]_vars

-----------------------------------------------------------------------------
(* Vocabulary of the properties *)

(* The body type that the connector decodes at an address of each kind. *)
SchemaOf(kind) ==
    CASE kind = "Config" -> GitHubConnectorConfig
      [] kind = "Repository" -> GitHubRepository
      [] kind = "BranchProtection" -> BranchProtection
      [] kind = "Collaborator" -> Collaborator

(* The path is the one the host's typed address formats to. *)
Addressed == path = to_path_buf(addr)

(* The kind of the address the path decodes to, "" when it decodes to none. *)
PathKind == IF from_path(path).tag = "Ok" THEN from_path(path).val.kind ELSE ""

Decodes(kind, opt) == opt.some /\ decode(SchemaOf(kind), opt.v).tag = "Ok"
BodyOf(kind, opt) == decode(SchemaOf(kind), opt.v).val

IsOkList == out.tag = "Ok"

(* How many planned operations are o, and how many are of variant k. *)
Count(o) == Cardinality({i \in 1..Len(out.val) : out.val[i].op = o})
CountVariant(k) == Cardinality({i \in 1..Len(out.val) : out.val[i].op.op = k})

DecodeErrors == {"ParseError", "Utf8Error"}

-----------------------------------------------------------------------------
(* C1: plan(addr, Some(X), Some(X)) with byte-identical current and        *)
(* desired returns success with an empty operation list, for every address *)
(* kind (Config, Repository, BranchProtection, Collaborator) and every     *)
(* valid body X.                                                           *)
C1_PlanIdempotent ==
    (op = "plan" /\ Addressed /\ Decodes(addr.kind, current) /\ desired = current)
        => out = Ok(<<>>)

(* C2: if current and desired bytes differ but decode to equal structures, *)
(* plan yields an empty operation list and eq returns true, for every      *)
(* address kind.                                                           *)
C2_FormattingInsensitive ==
    (/\ Addressed
     /\ Decodes(addr.kind, current) /\ Decodes(addr.kind, desired)
     /\ current.v # desired.v
     /\ BodyOf(addr.kind, current) = BodyOf(addr.kind, desired))
        => /\ op = "plan" => out = Ok(<<>>)
           /\ op = "eq" => out = Ok(TRUE)

(* C3: for a Repository or BranchProtection address and a decodable        *)
(* desired body d, plan(addr, None, Some(d)) yields exactly one operation, *)
(* the Create variant of the address's kind carrying the decoded d.        *)
C3_Birth ==
    (/\ op = "plan"
     /\ PathKind \in {"Repository", "BranchProtection"}
     /\ ~current.some
     /\ Decodes(PathKind, desired))
        => /\ IsOkList
           /\ Len(out.val) = 1
           /\ PathKind = "Repository" =>
                out.val[1].op = CreateRepository(BodyOf("Repository", desired))
           /\ PathKind = "BranchProtection" =>
                out.val[1].op = CreateBranchProtection(BodyOf("BranchProtection", desired))

C3_Witness ==
    /\ op = "plan"
    /\ PathKind = "Repository"
    /\ ~current.some
    /\ Decodes("Repository", desired)
    /\ BodyOf("Repository", desired)["private"].tok = "false"
    /\ IsOkList
    /\ out.val[1].op.op = "CreateRepository"
    /\ out.val[1].op.new["private"].tok = "false"

(* C4: for a Repository or BranchProtection address and every current byte *)
(* buffer c, plan(addr, Some(c), None) yields exactly one operation, the   *)
(* Delete variant of the address's kind.                                   *)
C4_Death ==
    (/\ op = "plan"
     /\ PathKind \in {"Repository", "BranchProtection"}
     /\ current.some
     /\ ~desired.some)
        => /\ IsOkList
           /\ Len(out.val) = 1
           /\ PathKind = "Repository" => out.val[1].op = DeleteRepository
           /\ PathKind = "BranchProtection" => out.val[1].op = DeleteBranchProtection

C4_Witness ==
    /\ op = "plan"
    /\ PathKind = "Repository"
    /\ current = Some(NotUtf8)
    /\ ~desired.some
    /\ out.tag = "Ok"
    /\ out.val[1].op = DeleteRepository

-----------------------------------------------------------------------------
(* Repository bodies on both sides of a plan *)

RepoPair ==
    /\ op = "plan"
    /\ PathKind = "Repository"
    /\ Decodes("Repository", current)
    /\ Decodes("Repository", desired)

Cur == BodyOf("Repository", current)
Des == BodyOf("Repository", desired)

Collabs(body) == body["collaborators"].map
PrincipalsIn(body) == {e[1] : e \in Collabs(body)}
RoleIn(body, p) == (CHOOSE e \in Collabs(body) : e[1] = p)[2]
OtherFieldsEqual(a, b) ==
    \A n \in SchemaNames(GitHubRepository) \ {"collaborators"} : a[n] = b[n]

(* The collaborator operations as the specification's data model has them. *)
AddCollaboratorOf(p, r) == [op |-> "AddCollaborator", principal |-> p, role |-> r]
UpdateCollaboratorOf(p, r) == [op |-> "UpdateCollaborator", principal |-> p, role |-> r]
RemoveCollaboratorOf(p) == [op |-> "RemoveCollaborator", principal |-> p]
CountMentions(p) ==
    Cardinality({i \in 1..Len(out.val) :
        "principal" \in DOMAIN out.val[i].op /\ out.val[i].op.principal = p})

(* C5: for a Repository address whose current and desired bodies differ    *)
(* only in the collaborator mapping, plan emits exactly one                *)
(* AddCollaborator(principal, role) for each principal present only in     *)
(* desired, exactly one UpdateCollaborator(principal, new role) for each   *)
(* principal present in both with a different role, and no repository      *)
(* level update.                                                           *)
C5_CollaboratorDecomposition ==
    (RepoPair /\ OtherFieldsEqual(Cur, Des) /\ Collabs(Cur) # Collabs(Des))
        => /\ IsOkList
           /\ \A p \in PrincipalsIn(Des) \ PrincipalsIn(Cur) :
                Count(AddCollaboratorOf(p, RoleIn(Des, p))) = 1
           /\ \A p \in PrincipalsIn(Des) \cap PrincipalsIn(Cur) :
                RoleIn(Des, p) # RoleIn(Cur, p) =>
                    Count(UpdateCollaboratorOf(p, RoleIn(Des, p))) = 1
           /\ CountVariant("UpdateRepository") = 0

(* C6: for a Repository address, each principal in the current mapping and *)
(* absent from the desired one yields exactly one                          *)
(* RemoveCollaborator(principal), and a principal whose role is unchanged  *)
(* yields no operation.                                                    *)
C6_CollaboratorRemoval ==
    RepoPair
        => /\ IsOkList
           /\ \A p \in PrincipalsIn(Cur) \ PrincipalsIn(Des) :
                Count(RemoveCollaboratorOf(p)) = 1
           /\ \A p \in PrincipalsIn(Cur) \cap PrincipalsIn(Des) :
                RoleIn(Des, p) = RoleIn(Cur, p) => CountMentions(p) = 0

(* C7: when the current and desired Repository bodies decode to different  *)
(* structures, plan emits exactly one UpdateRepository carrying the full   *)
(* new body if and only if some field other than the collaborator mapping  *)
(* differs, and none when only the collaborator mapping differs.           *)
C7_RepositoryUpdateEmission ==
    (RepoPair /\ Cur # Des)
        => /\ IsOkList
           /\ ~OtherFieldsEqual(Cur, Des) =>
                /\ CountVariant("UpdateRepository") = 1
                /\ \E i \in 1..Len(out.val) :
                    out.val[i].op.op = "UpdateRepository" /\ out.val[i].op.new = Des
           /\ OtherFieldsEqual(Cur, Des) => CountVariant("UpdateRepository") = 0

-----------------------------------------------------------------------------
(* Addresses and paths *)

NonEmptyComponents(a) ==
    CASE a.kind = "Config" -> TRUE
      [] a.kind = "Repository" -> a.owner # <<>> /\ a.repo # <<>>
      [] a.kind = "BranchProtection" -> a.owner # <<>> /\ a.repo # <<>> /\ a.branch # <<>>
      [] a.kind = "Collaborator" -> a.owner # <<>> /\ a.repo # <<>> /\ a.username # <<>>

(* C8: for every constructible address a of every variant with non-empty   *)
(* identifier components, from_path(to_path_buf(a)) succeeds and returns a. *)
C8_AddressRoundTrip ==
    (op = "from_path" /\ Addressed /\ NonEmptyComponents(addr)) => out = Ok(addr)

(* The shapes a path may have: the config path, and the repository, branch *)
(* protection and collaborator paths under github/<owner>/<repo>.          *)
KnownShape(p) ==
    LET c == components(p)
    IN  \/ c = <<GITHUB, CONFIG_RON>>
        \/ Len(c) = 4 /\ c[1] = GITHUB /\ c[4] = REPOSITORY_RON
        \/ Len(c) = 6 /\ c[1] = GITHUB /\ c[4] = BRANCHES /\ c[6] = PROTECTION_RON
        \/ Len(c) = 5 /\ c[1] = GITHUB /\ c[4] = COLLABORATORS /\ ends_with(c[5], DOT_RON)

(* C9: from_path never panics, and for every path that matches none of the *)
(* known shapes it returns an InvalidAddress error carrying that path.     *)
C9_InvalidPath ==
    op = "from_path"
        => /\ out.tag # "Panic"
           /\ ~KnownShape(path) => out = Err("InvalidAddress", path)

-----------------------------------------------------------------------------
(* Strict schema *)

UnknownNames(kind, buf) ==
    {buf.fields[i].name : i \in 1..Len(buf.fields)} \ SchemaNames(SchemaOf(kind))

HasUnknownField(kind, opt) ==
    opt.some /\ opt.v.utf8 /\ UnknownNames(kind, opt.v) # {}

(* The text with its unrecognized fields taken out decodes. *)
OtherwiseValid(kind, buf) ==
    LET known(f) == f.name \in SchemaNames(SchemaOf(kind))
    IN  decode(SchemaOf(kind), [buf EXCEPT !.fields = SelectSeq(buf.fields, known)]).tag = "Ok"

DiagNamesUnknown(kind) ==
    /\ out.tag = "Ok"
    /\ out.val.some
    /\ out.val.v.info.field \in UnknownNames(kind, desired.v)

BodyKinds == {"Repository", "BranchProtection"}

-----------------------------------------------------------------------------
(* Updates without decomposition, and absence *)

(* The Update variant of each kind whose body is updated as a whole. *)
UpdateVariantOf(kind) ==
    CASE kind = "BranchProtection" -> "UpdateBranchProtection"
      [] kind = "Config" -> "UpdateConfig"

(* C11: for a BranchProtection or Config address whose current and desired *)
(* bodies decode to different structures, plan emits exactly one Update    *)
(* operation of that address kind carrying the full new body, with the     *)
(* diff summary in its description.                                        *)
C11_SingleUpdate ==
    (/\ op = "plan"
     /\ Addressed
     /\ addr.kind \in {"BranchProtection", "Config"}
     /\ Decodes(addr.kind, current) /\ Decodes(addr.kind, desired)
     /\ BodyOf(addr.kind, current) # BodyOf(addr.kind, desired))
        => /\ IsOkList
           /\ Len(out.val) = 1
           /\ out.val[1].op.op = UpdateVariantOf(addr.kind)
           /\ out.val[1].op.new = BodyOf(addr.kind, desired)
           /\ LET args == out.val[1].desc.args
                  summary == diff_ron_values(SchemaOf(addr.kind),
                                BodyOf(addr.kind, current), BodyOf(addr.kind, desired))
              IN  summary # <<>> /\ args[Len(args)] = summary

(* C12: for every address kind including Config, plan(addr, None, None)    *)
(* returns success with an empty operation list.                           *)
C12_NoOpOnAbsence ==
    (op = "plan" /\ Addressed /\ ~current.some /\ ~desired.some) => out = Ok(<<>>)

-----------------------------------------------------------------------------
(* Reproducible plans *)

(* C13: two plan calls with the same address, current and desired return   *)
(* the same operations with the same descriptions in the same order.       *)
C13_DeterministicPlan ==
    (op = "plan" /\ prev.some) => out = prev.v

-----------------------------------------------------------------------------
(* Equality of bodies *)

WrittenNames(buf) == {buf.fields[i].name : i \in 1..Len(buf.fields)}

(* Text b writes some field with the value the field takes when left out,  *)
(* and text a leaves that field out.                                       *)
OmitsADefault(kind, a, b) ==
    \E i \in 1..Len(b.fields) :
        LET f == b.fields[i]
        IN  /\ f.name \in SchemaNames(SchemaOf(kind))
            /\ f.name \notin WrittenNames(a)
            /\ f.tok = SchemaField(SchemaOf(kind), f.name).default
            /\ f.entries = <<>>

(* The two texts write the same fields with the same values, in any order. *)
SameUpToOrder(a, b) ==
    /\ Len(a.fields) = Len(b.fields)
    /\ {<<a.fields[i].name, Decoded(a.fields[i])>> : i \in 1..Len(a.fields)}
         = {<<b.fields[i].name, Decoded(b.fields[i])>> : i \in 1..Len(b.fields)}

(* C14: eq treats a body that omits a field and a body that sets the same  *)
(* field explicitly to its default value as different, and returns true    *)
(* only for buffers that differ in formatting or field order.              *)
C14_NoDefaultTolerance ==
    (/\ op = "eq"
     /\ PathKind \in BodyKinds
     /\ Decodes(PathKind, current) /\ Decodes(PathKind, desired))
        => /\ (OmitsADefault(PathKind, current.v, desired.v)
                \/ OmitsADefault(PathKind, desired.v, current.v)) => out = Ok(FALSE)
           /\ out = Ok(TRUE) => SameUpToOrder(current.v, desired.v)

-----------------------------------------------------------------------------
(* The validator and the planner *)

(* plan(path, None, Some(bytes)) fails to decode the bytes. *)
PlanFailsToParse(p, bytes) ==
    LET r == do_plan(p, None, Some(bytes))
    IN  r.tag = "Err" /\ r.kind \in DecodeErrors

(* C15: at every address that from_path returns and for every buffer, diag *)
(* returns a non-error result, None exactly when the buffer decodes as the *)
(* body of that kind and a diagnostic otherwise; so diag is None exactly   *)
(* when plan(addr, None, Some(bytes)) does not fail with a parse error.    *)
C15_ValidatorAgreesWithPlanner ==
    (op = "diag" /\ PathKind # "")
        => /\ out.tag = "Ok"
           /\ out.val = None <=> Decodes(PathKind, desired)
           /\ out.val = None <=> ~PlanFailsToParse(path, desired.v)

-----------------------------------------------------------------------------
(* Decode errors of plan *)

(* The side is present and does not decode as the body of that kind. *)
Undecodable(kind, opt) == opt.some /\ ~Decodes(kind, opt)

UndecodableSides ==
    (IF Undecodable(PathKind, current) THEN {"current"} ELSE {})
    \cup (IF Undecodable(PathKind, desired) THEN {"desired"} ELSE {})

(* C16: when current or desired bytes are malformed or do not match the    *)
(* schema of the address's kind, plan returns an error and no operation    *)
(* list, and the error identifies the side that failed to decode.          *)
C16_PlanDecodeErrors ==
    (op = "plan" /\ PathKind # "" /\ UndecodableSides # {})
        => /\ out.tag = "Err"
           /\ out.kind \in DecodeErrors
           /\ "side" \in DOMAIN out.info
           /\ out.info.side \in UndecodableSides

-----------------------------------------------------------------------------
(* Operations and the kinds they belong to *)

VariantsOf(kind) ==
    CASE kind = "Repository" -> {"CreateRepository", "UpdateRepository", "DeleteRepository"}
      [] kind = "BranchProtection" ->
            {"CreateBranchProtection", "UpdateBranchProtection", "DeleteBranchProtection"}
      [] kind = "Collaborator" ->
            {"AddCollaborator", "UpdateCollaboratorPermission", "RemoveCollaborator"}
      [] kind = "Config" -> {}

(* C17: for every address kind and every operation variant that does not   *)
(* belong to that kind (any operation on Config included), op_exec returns *)
(* the unsupported-operation error and makes no remote API call.           *)
C17_UnsupportedOperation ==
    (/\ op = "op_exec"
     /\ Addressed
     /\ op_from_str(request.v).tag = "Ok"
     /\ request.v.variant \notin VariantsOf(addr.kind))
        => /\ out.result = invalid_op(addr, op_from_str(request.v).val)
           /\ out.calls = <<>>

-----------------------------------------------------------------------------
(* Roles *)

(* C18: for every Role r, Custom(s) included, Role::from_str(r.to_string()) *)
(* is r, and for every permission string s, Role::from_str(s).to_string()  *)
(* is s.                                                                   *)
C18_RoleLossless ==
    /\ op = "Role::to_string" => Role_from_str(out) = role
    /\ op = "Role::from_str" => Role_to_string(out) = perm

-----------------------------------------------------------------------------
(* The shared connector *)

(* The calls whose remote request is out. *)
InFlight == {t \in Tasks : tasks[t].pc \in {"remote", "remote_user", "remote_org"}}

(* C19: with any number of get, list and op_exec calls running at once on  *)
(* one connector, the number of remote API calls in flight never exceeds   *)
(* the configured concurrent_requests.                                     *)
C19_BoundedConcurrency ==
    Cardinality(InFlight) <= config.concurrent_requests

(* C20: a call running concurrently with init never uses a configuration   *)
(* of one initialization together with a client or a semaphore of another, *)
(* and when init fails the connector's config, semaphore and client are    *)
(* all as they were before the call.                                       *)
C20_WholesaleRefresh ==
    /\ \A t \in Tasks :
        (tasks[t].config_seen.some /\ tasks[t].client_seen.some)
            => tasks[t].config_seen.v.init = tasks[t].client_seen.v.init
    /\ init_call.result.tag = "Err" => Snapshot = init_call.before.v

-----------------------------------------------------------------------------
(* C21: plan is stateless.  Whatever init, get, list or op_exec call is in  *)
(* progress and whatever lock is held, the step of a plan call leaves the   *)
(* configuration, the client, the semaphore and every call in progress as   *)
(* they were, and what it returns is the plan of its arguments alone.       *)
PlanStep == <<op, out, path, current, desired>>' # <<op, out, path, current, desired>>

C21_PlanStateless ==
    [][PlanStep =>
        /\ UNCHANGED connvars
        /\ op' = "plan"
        /\ \E i \in PlanCallInputs :
            /\ <<path', current', desired'>> = <<to_path_buf(i[1]), i[2], i[3]>>
            /\ out' \in PlanCallResults[i]]_vars

(* plan has answered with operations while init is between its writes and  *)
(* a get call holds the read guard of the client.                           *)
C21_Witness ==
    /\ op = "plan"
    /\ out.tag = "Ok" /\ out.val # <<>>
    /\ init_call.pc = "semaphore_written"
    /\ ClientReadGuards # {}

-----------------------------------------------------------------------------
(* C22: body round trip.  For every Repository or BranchProtection body     *)
(* written by to_bytes, from_bytes at an address of the body's kind         *)
(* succeeds and returns an equal body; from_bytes at a Config or            *)
(* Collaborator address returns an invalid-address error.                   *)
ReadBack == op = "from_bytes"
WrittenByToBytes == prev.some /\ current.some /\ current.v \in to_bytes(prev.v)

C22_BodyRoundTrip ==
    ReadBack =>
        /\ (WrittenByToBytes /\ addr.kind = prev.v.kind) => out = Ok(prev.v)
        /\ addr.kind \in {"Config", "Collaborator"} =>
                out.tag = "Err" /\ out.kind = "InvalidAddress"

-----------------------------------------------------------------------------
(* The address shapes a path can match. *)
MatchesShape(kind, p) ==
    LET c == components(p)
    IN  CASE kind = "Config" -> c = <<GITHUB, CONFIG_RON>>
          [] kind = "Repository" -> Len(c) = 4 /\ c[1] = GITHUB /\ c[4] = REPOSITORY_RON
          [] kind = "BranchProtection" ->
                Len(c) = 6 /\ c[1] = GITHUB /\ c[4] = BRANCHES /\ c[6] = PROTECTION_RON
          [] kind = "Collaborator" ->
                Len(c) = 5 /\ c[1] = GITHUB /\ c[4] = COLLABORATORS /\ ends_with(c[5], DOT_RON)

ShapesOf(p) ==
    {k \in {"Config", "Repository", "BranchProtection", "Collaborator"} : MatchesShape(k, p)}

(* Two paths are the same path when their components are the same. *)
SamePath(p, q) == components(p) = components(q)

(* C23: path shapes are unambiguous.  Every path matches at most one        *)
(* address shape; to_path_buf gives no other address the path, not even the *)
(* bytes, that it gives this one; and a path that from_path accepts is the  *)
(* path of the address from_path returns.                                   *)
C23_UnambiguousPaths ==
    /\ Cardinality(ShapesOf(path)) <= 1
    /\ op = "to_path_buf" => \A b \in AllAddrs : b # addr => to_path_buf(b) # path
    /\ (op = "from_path" /\ out.tag = "Ok") => SamePath(to_path_buf(out.val), path)

-----------------------------------------------------------------------------
(* Descriptions *)

(* The format strings of do_plan that hold a line break: the text before   *)
(* it is the first line, the last argument (the diff) follows it.          *)
TwoLineFormats ==
    {"Update GitHub repository {}/{}\n{}", "Update branch protection for {}/{} branch {}\n{}"}

LineCount(desc) == IF desc.fmt \in TwoLineFormats THEN 2 ELSE 1

(* The arguments written on the first line of a description. *)
FirstLineArgs(desc) ==
    LET n == IF LineCount(desc) = 2 THEN Len(desc.args) - 1 ELSE Len(desc.args)
    IN  {desc.args[i] : i \in 1..n}

(* The identifier fields of an address. *)
IdentifyingFields(a) ==
    CASE a.kind = "Config" -> {}
      [] a.kind = "Repository" -> {a.owner, a.repo}
      [] a.kind = "BranchProtection" -> {a.owner, a.repo, a.branch}
      [] a.kind = "Collaborator" -> {a.owner, a.repo, a.username}

PlannedAddress == from_path(path).val

(* C24 as the specification states it: every operation plan emits has a    *)
(* description of a single line that contains the identifying fields of the *)
(* address.                                                                 *)
C24_Descriptions ==
    (op = "plan" /\ IsOkList) =>
        \A i \in 1..Len(out.val) :
            /\ LineCount(out.val[i].desc) = 1
            /\ IdentifyingFields(PlannedAddress) \subseteq FirstLineArgs(out.val[i].desc)

(* C24, amended: every operation plan emits has a description whose first   *)
(* line contains the identifying fields of the address; the description is  *)
(* that line alone, except for UpdateRepository and UpdateBranchProtection, *)
(* where a line break and the diff of the two bodies follow it.             *)
C24_DescriptionFirstLine ==
    (op = "plan" /\ IsOkList) =>
        \A i \in 1..Len(out.val) :
            /\ IdentifyingFields(PlannedAddress) \subseteq FirstLineArgs(out.val[i].desc)
            /\ LineCount(out.val[i].desc) =
                    (IF out.val[i].op.op \in {"UpdateRepository", "UpdateBranchProtection"}
                        THEN 2 ELSE 1)
            /\ LineCount(out.val[i].desc) = 2 =>
                    out.val[i].desc.args[Len(out.val[i].desc.args)]
                        = diff_ron_values(OpSchema(out.val[i].op), out.val[i].op.old, out.val[i].op.new)

(* plan has emitted an UpdateBranchProtection: its description names owner, *)
(* repo and branch on the first line and carries the diff on the next.     *)
C24_Witness ==
    /\ op = "plan" /\ IsOkList /\ Len(out.val) = 1
    /\ out.val[1].op.op = "UpdateBranchProtection"
    /\ LineCount(out.val[1].desc) = 2
    /\ {O, R, M} \subseteq FirstLineArgs(out.val[1].desc)
    /\ out.val[1].desc.args[4] # <<>>

-----------------------------------------------------------------------------
(* Initialization *)

InitReturnedOk == init_call.pc = "idle" /\ init_call.result.tag = "Ok"

(* The configuration init falls back to: the defaults, the login the only  *)
(* user.                                                                   *)
FallbackConfig(n) ==
    [init |-> n, orgs |-> <<>>, users |-> <<Login>>, enterprise_url |-> None,
     concurrent_requests |-> 5]

-----------------------------------------------------------------------------
(* Get, plan and execute against the service *)

Stage == prev.v.stage

(* C26: convergence.  At a Repository or BranchProtection address, when    *)
(* get has answered with the state of the service, every operation of the  *)
(* plan against desired has been executed by op_exec in order with         *)
(* success, and get has answered again, plan against the same desired      *)
(* yields the empty plan.                                                  *)
C26_Convergence ==
    (Stage = "replanned" /\ addr.kind \in {"Repository", "BranchProtection"})
        => out = Ok(<<>>)

(* C27: plan and executor agree.  Every operation that plan emits for an   *)
(* address, handed to op_exec for the same address as the text             *)
(* op_definition, is parsed and dispatched: op_exec answers it with the    *)
(* outcome of its remote call, never with an unsupported-operation, an     *)
(* invalid-address or a parse error.                                       *)
Rejections == {"InvalidOp", "InvalidAddress", "ParseError", "Utf8Error"}

C27_PlanExecutorAgree ==
    op = "op_exec" =>
        /\ out.result.tag # "Panic"
        /\ out.result.tag = "Err" => out.result.kind \notin Rejections
        /\ Len(out.calls) = 1

(* op_exec has executed a planned UpdateCollaboratorPermission. *)
C27_Witness ==
    /\ op = "op_exec"
    /\ addr.kind = "Collaborator"
    /\ out.result.tag = "Ok"
    /\ out.calls[1].api = "update_collaborator_permission"

(* C28: get returns None exactly when the resource does not exist in the   *)
(* service: an existing resource is never answered with None, whatever     *)
(* becomes of the request; and at the Config address get returns None.     *)
C28_GetAbsence ==
    op = "get" =>
        IF addr.kind = "Config" THEN out = Ok(None)
        ELSE (out = Ok(None)) <=> ~remote.some

(* The owners the configuration names. *)
ConfiguredOwners ==
    {config.users[i] : i \in 1..Len(config.users)} \cup {config.orgs[i] : i \in 1..Len(config.orgs)}

(* The address a listed path names is held by the service: the repository  *)
(* under the owner in the path, or a protected branch of it.               *)
ExistsRemotely(a) ==
    /\ a.kind \in {"Repository", "BranchProtection"}
    /\ Repo(a.owner, a.repo) \in remote.repos
    /\ a.kind = "BranchProtection" =>
            Branch(a.branch, TRUE) \in remote.branches[Repo(a.owner, a.repo)]

(* The i-th path of a listing decodes to an address that exists remotely   *)
(* and whose owner is configured and in the scope of the subpath.          *)
ListedRight(i) ==
    LET d == from_path(out.val[i])
    IN  /\ d.tag = "Ok"
        /\ ExistsRemotely(d.val)
        /\ d.val.owner \in ConfiguredOwners
        /\ addr_matches_filter(OwnerPrefix(d.val.owner), path)

(* C29: every path list(subpath) returns decodes with from_path, names a   *)
(* repository that exists remotely under the owner in the path (or a       *)
(* protected branch of it), belongs to a configured user or org whose      *)
(* github/<owner>/ prefix matches subpath, and appears at most once.       *)
C29_ListExisting ==
    (op = "list" /\ out.tag = "Ok") =>
        \A i \in 1..Len(out.val) :
            /\ ListedRight(i)
            /\ \A j \in 1..Len(out.val) : out.val[j] = out.val[i] => j = i

-----------------------------------------------------------------------------
(* The paths to_path_buf writes, read off its format strings: the path of  *)
(* an address of some kind, whatever strings its identifiers are.          *)

has_prefix(s, pre) == Len(s) >= Len(pre) /\ SubSeq(s, 1, Len(pre)) = pre

(* s holds mark at position k, after a slash of its own. *)
HoldsAfterSlash(s, mark) ==
    \E k \in 1..Len(s) :
        /\ k + Len(mark) - 1 <= Len(s)
        /\ SubSeq(s, k, k + Len(mark) - 1) = mark
        /\ \E i \in 1..(k - 1) : s[i] = SLASH

(* The text between "github/" and the ending of the path, <<>> when the    *)
(* path does not have both.                                                *)
Between(p, ending) ==
    LET pre == GITHUB \o <<SLASH>>
    IN  IF has_prefix(p, pre) /\ ends_with(p, ending) /\ Len(p) >= Len(pre) + Len(ending)
            THEN SubSeq(p, Len(pre) + 1, Len(p) - Len(ending))
        ELSE <<>>

PathOfKind(kind, p) ==
    /\ is_utf8(p)
    /\ CASE kind = "Config" -> p = JoinSlash(<<GITHUB, CONFIG_RON>>)
         [] kind = "Repository" ->
                \E i \in 1..Len(Between(p, <<SLASH>> \o REPOSITORY_RON)) :
                    Between(p, <<SLASH>> \o REPOSITORY_RON)[i] = SLASH
         [] kind = "BranchProtection" ->
                HoldsAfterSlash(Between(p, <<SLASH>> \o PROTECTION_RON),
                                <<SLASH>> \o BRANCHES \o <<SLASH>>)
         [] kind = "Collaborator" ->
                HoldsAfterSlash(Between(p, DOT_RON), <<SLASH>> \o COLLABORATORS \o <<SLASH>>)

ResourcePath(p) == \E k \in {"Repository", "BranchProtection", "Collaborator"} : PathOfKind(k, p)

(* C30: filter classifies every path without failing: Config for the path   *)
(* of the Config address, Resource for every path of a Repository,          *)
(* BranchProtection or Collaborator address, none for every other path;     *)
(* filter never ends in an error.                                           *)
C30_FilterClassifies ==
    op = "filter" =>
        /\ out.tag = "Ok"
        /\ PathOfKind("Config", path) => out = Ok("Config")
        /\ ResourcePath(path) => out = Ok("Resource")
        /\ (~PathOfKind("Config", path) /\ ~ResourcePath(path)) => out = Ok("none")

====
